---- MODULE Spec2Model ----
(***************************************************************************)
(* Model of the event engine of src/index.ts: VisualizationContext (the    *)
(* subject with its event history), the StatisticsObserver and             *)
(* HistoryObserver, and one run of AsyncTimeoutForEachStrategy.visualize   *)
(* started through ArrayVisualizerAsync.execute, with the AbortSignal, the *)
(* per-element setTimeout callbacks and the promise of the run.            *)
(*                                                                         *)
(* The runs of TimeoutForEachStrategy.visualize and the calls a client     *)
(* makes on a context have specifications of their own. In Spec the         *)
(* elements and observers are well behaved: getValue() and update() return *)
(* normally. The specifications with faults attach an observer whose       *)
(* update throws, or let getValue() throw while the timers are scheduled.  *)
(***************************************************************************)
EXTENDS Integers, Sequences, FiniteSets, TLC

(* ------------------------------ bounds --------------------------------- *)
MaxLen == 3
MaxWeight == 2
NowStart == 1
MaxAbortCalls == 2
MaxFaultLen == 2
MaxEvents == 2
MaxAttachCalls == 2
MaxReceived == 3
MaxConfigUpdates == 2
MaxCommands == 3
MaxRunLen == 2

\* the delay of the setTimeout that emits COMPLETED in TimeoutForEachStrategy
CompletionDelay == 10

Weights == 0..MaxWeight
Undefined == -1

VARIABLES
    array,           \* ArrayVisualizerAsync.array: the elements of the run
    signalMode,      \* "none": execute(); "fresh": startWithAbort(); "preaborted": execute(signal) with signal.aborted
    aborted,         \* signal.aborted
    listeners,       \* "abort" listeners registered on the signal
    observers,       \* VisualizationContext.observers
    eventHistory,    \* VisualizationContext.eventHistory
    elementCount,    \* VisualizationContext.elementCount
    stats,           \* the StatisticsObserver's fields
    history,         \* HistoryObserver.history
    timers,          \* indices whose setTimeout callback is registered and has not run
    completedCount,  \* the executor's completedCount
    inner,           \* the promise created by new Promise(...) inside visualize
    visualizeResult, \* the outcome of the call of visualize
    executeResult,   \* the promise returned by execute / startWithAbort
    now,             \* Date.now()
    abortCalls,      \* calls of the abort handle returned by startWithAbort so far
    strategy,        \* "async": AsyncTimeoutForEachStrategy; "sync": TimeoutForEachStrategy
    argIsArray,      \* Array.isArray of the first argument of visualize
    completionTimer, \* when the setTimeout(emitCompleted, 10) of TimeoutForEachStrategy is due
    updateCalls,     \* per observer, the calls of its update so far
    uncaught,        \* the callbacks an exception has left, reported by the runtime as uncaught
    throwOn,         \* the event type on which the update of the faulty observer throws
    faultAt,         \* the place of the element whose getValue() throws during scheduling, 0: none
    emitted,         \* the events the client of the context has emitted, in the order of the calls
    emitResult,      \* how the last emit call of the client ended
    snapshot,        \* the array the last getEventHistory call returned, and whether it
                     \* is the array of the context itself
    calls,           \* per observer, the attach and the detach calls the client has made
    received,        \* the events a client has handed to the update of each observer since
                     \* the observer was constructed, reset or cleared, and what the last
                     \* reset and clear came after
    logging,         \* ConfigurationManager.config, the config field of the
                     \* ConsoleLoggingObserver, the types of the events it has written to the
                     \* console, and the events handed to its update
    runnerLog,       \* the steps of AbstractVisualizationRunner.run taken so far
    marks,           \* the addObserver and removeObserver calls for the HistoryObserver
                     \* made during a run, each with the length of the history at the call
    multi,           \* two runs on one or two ArrayVisualizerAsync instances: the context
                     \* and the abortController of each instance, the state of each run
    invoker          \* CommandInvoker: commandQueue, executedCommands, and what a client
                     \* has enqueued, cleared and seen executed

vars == <<array, signalMode, aborted, listeners, observers, eventHistory,
          elementCount, stats, history, timers, completedCount, inner,
          visualizeResult, executeResult, now, abortCalls, strategy,
          argIsArray, completionTimer, updateCalls, uncaught, throwOn, faultAt,
          emitted, emitResult, snapshot, calls, received, logging, runnerLog,
          marks, multi, invoker>>

\* the faults given to a run, and the variables of a client that calls the context
faultVars == <<throwOn, faultAt>>
apiVars == <<calls, received, logging, runnerLog, marks, multi, invoker>>
clientVars == <<emitted, emitResult, snapshot, apiVars>>

(* ------------------------------ events --------------------------------- *)
STARTED == "STARTED"
ELEMENT_DISPLAYED == "ELEMENT_DISPLAYED"
COMPLETED == "COMPLETED"
ERROR == "ERROR"
EventType == {STARTED, ELEMENT_DISPLAYED, COMPLETED, ERROR}

StrategyName ==
    IF strategy = "sync" THEN "setTimeout + forEach Strategy"
    ELSE "Async setTimeout + forEach Strategy with Abort"
NoElement == [id |-> Undefined, value |-> Undefined]

\* the element objects of an input: identity (position at construction) and getValue()
Elements(ws) == [i \in 1..Len(ws) |-> [id |-> i, value |-> ws[i]]]
getValue(element) == element.value

Max(a, b) == IF a >= b THEN a ELSE b


(* ------------------------- configuration ------------------------------- *)
\* the configuration the ConfigurationManager is constructed with; of its fields
\* enableLogging alone decides whether an event is written
DefaultConfig == [enableLogging |-> TRUE]

\* getConfig: a frozen copy of the configuration as it is at the call
getConfig(config) == config

\* updateConfig: the manager takes a new object, the fields of partial over the old ones
updateConfig(config, partial) ==
    [f \in DOMAIN config |-> IF f \in DOMAIN partial THEN partial[f] ELSE config[f]]

\* no ConsoleLoggingObserver has been constructed, no configuration updated
LoggingInit ==
    [config |-> DefaultConfig, constructed |-> FALSE, observerConfig |-> DefaultConfig,
     output |-> <<>>, handed |-> <<>>, updates |-> 0]

(* ---------------------- visualizers and runs ---------------------------- *)
\* two ArrayVisualizerAsync instances, and the two calls of execute or startWithAbort
Visualizers == {"first", "second"}
RunIds == {1, 2}

\* a run not started
NoRun ==
    [state |-> "none", visualizer |-> "first", hasSignal |-> FALSE, aborted |-> FALSE,
     listener |-> FALSE, length |-> 0, timers |-> {}, completedCount |-> 0,
     inner |-> "none"]

\* the instances just constructed: each with a context of its own and no
\* abortController; emittedBy tells for each event of a history the run it came from
MultiInit ==
    [contexts |-> [v \in Visualizers |->
                     [eventHistory |-> <<>>, elementCount |-> 0, emittedBy |-> <<>>]],
     abortController |-> [v \in Visualizers |-> 0],
     runs |-> [r \in RunIds |-> NoRun],
     handles |-> [r \in RunIds |-> [calls |-> 0, tripped |-> {}]]]

(* --------------------------- invoker ----------------------------------- *)
\* a CommandInvoker just constructed
InvokerInit ==
    [commandQueue |-> <<>>, executedCommands |-> <<>>, enqueued |-> 0, cleared |-> 0,
     ran |-> <<>>, result |-> "none"]

(* --------------------------- observers --------------------------------- *)
\* ConsoleLoggingObserver.update: config is the field the observer was constructed
\* with, output the types of the events written so far
ConsoleLoggingUpdate(config, output, event) ==
    IF ~config.enableLogging THEN output ELSE Append(output, event.type)

StatsInit ==
    [startTime |-> 0, endTime |-> 0, displayedElements |-> 0, totalDelay |-> 0,
     events |-> [t \in EventType |-> 0]]

\* faulty variant: the delay of a displayed element is not added up
StatisticsUpdate_NoDelay(s, event) ==
    LET counted == [s EXCEPT !.events[event.type] = @ + 1]
    IN  CASE event.type = STARTED -> [counted EXCEPT !.startTime = event.timestamp]
          [] event.type = ELEMENT_DISPLAYED -> [counted EXCEPT !.displayedElements = @ + 1]
          [] event.type = COMPLETED -> [counted EXCEPT !.endTime = event.timestamp]
          [] OTHER -> counted

\* StatisticsObserver.update
StatisticsUpdate(s, event) ==
    LET counted == [s EXCEPT !.events[event.type] = @ + 1]
    IN  CASE event.type = STARTED -> [counted EXCEPT !.startTime = event.timestamp]
          [] event.type = ELEMENT_DISPLAYED ->
                [counted EXCEPT !.displayedElements = @ + 1,
                                !.totalDelay = IF event.delay # Undefined /\ event.delay # 0
                                               THEN @ + event.delay ELSE @]
          [] event.type = COMPLETED -> [counted EXCEPT !.endTime = event.timestamp]
          [] OTHER -> counted

\* StatisticsObserver.getStatistics. averageDelay is the quotient of totalDelay and
\* displayedElements, kept as numerator and denominator.
getStatistics(s) ==
    [duration |-> s.endTime - s.startTime,
     displayedElements |-> s.displayedElements,
     totalDelay |-> s.totalDelay,
     averageDelay |-> IF s.displayedElements > 0
                      THEN [num |-> s.totalDelay, den |-> s.displayedElements]
                      ELSE [num |-> 0, den |-> 1],
     eventCounts |-> s.events]

\* faulty variant: the event counts survive the reset
reset_KeepsCounts(s) ==
    [s EXCEPT !.startTime = 0, !.endTime = 0, !.displayedElements = 0, !.totalDelay = 0]

\* StatisticsObserver.reset
reset(s) ==
    [s EXCEPT !.startTime = 0, !.endTime = 0, !.displayedElements = 0, !.totalDelay = 0,
              !.events = [t \in EventType |-> 0]]

\* new Date(timestamp).toLocaleTimeString(): a text rendered from the timestamp
toLocaleTimeString(t) == <<"time", t>>

\* faulty variant: only the events that carry an element are recorded
HistoryUpdate_ElementsOnly(h, event) ==
    IF event.type = ELEMENT_DISPLAYED
    THEN Append(h, [event |-> event, formattedTime |-> toLocaleTimeString(event.timestamp)])
    ELSE h

\* HistoryObserver.update
HistoryUpdate(h, event) ==
    Append(h, [event |-> event, formattedTime |-> toLocaleTimeString(event.timestamp)])

\* faulty variant: the oldest entry survives
clear_KeepsFirst(h) == IF h = <<>> THEN h ELSE <<h[1]>>

\* HistoryObserver.clear
clear(h) == <<>>

\* faulty variant: the array of the observer itself is returned
getHistory_Live(h) == [array |-> h, live |-> TRUE]

\* HistoryObserver.getHistory: "return [...this.history]"
getHistory(h) == [array |-> h, live |-> FALSE]

(* ---------------------------- context ---------------------------------- *)
\* the observers of the model: a StatisticsObserver, a HistoryObserver and an
\* observer whose update throws on the events of type throwOn
Observers == {"stats", "history", "faulty"}

\* The part of the state an emission changes: the context and the observers. The
\* field threw tells that an update raised an exception that left notify.
World == [observers |-> observers, eventHistory |-> eventHistory,
          elementCount |-> elementCount, stats |-> stats, history |-> history,
          updateCalls |-> updateCalls, threw |-> FALSE]

\* observer.update(event) of the observer o
update(w, o, event) ==
    LET called == [w EXCEPT !.updateCalls[o] = @ + 1]
    IN  CASE o = "stats" -> [called EXCEPT !.stats = StatisticsUpdate(@, event)]
          [] o = "history" -> [called EXCEPT !.history = HistoryUpdate(@, event)]
          [] OTHER -> [called EXCEPT !.threw = (event.type = throwOn)]

\* faulty variant: only the observer attached first is told
forEach_FirstOnly(w, obs, event) ==
    IF obs = <<>> THEN w ELSE update(w, Head(obs), event)

\* faulty variant: an exception of an update is swallowed and the iteration goes on
RECURSIVE forEach_Swallowing(_, _, _)
forEach_Swallowing(w, obs, event) ==
    IF obs = <<>> THEN w
    ELSE forEach_Swallowing([update(w, Head(obs), event) EXCEPT !.threw = FALSE],
                            Tail(obs), event)

\* "this.observers.forEach((observer) => observer.update(event))": the observers in
\* the order they were attached; an exception ends the iteration
RECURSIVE forEach(_, _, _)
forEach(w, obs, event) ==
    IF obs = <<>> \/ w.threw THEN w
    ELSE forEach(update(w, Head(obs), event), Tail(obs), event)

\* faulty variant: the observers are told, the event is not recorded
notify_NotRecorded(w, event) == forEach(w, w.observers, event)

\* VisualizationContext.notify
notify(w, event) ==
    forEach([w EXCEPT !.eventHistory = Append(@, event)], w.observers, event)

\* the event objects built by the emit methods
StartedEvent(t) ==
    [type |-> STARTED, element |-> NoElement, index |-> Undefined,
     timestamp |-> t, delay |-> Undefined, strategy |-> StrategyName,
     totalDisplayed |-> Undefined, totalElements |-> Undefined, error |-> ""]

\* faulty variant: the event is built without the index
ElementDisplayedEvent_NoIndex(element, index, delay, t, count) ==
    [type |-> ELEMENT_DISPLAYED, element |-> element, index |-> Undefined,
     timestamp |-> t, delay |-> delay, strategy |-> "",
     totalDisplayed |-> count, totalElements |-> Undefined, error |-> ""]

ElementDisplayedEvent(element, index, delay, t, count) ==
    [type |-> ELEMENT_DISPLAYED, element |-> element, index |-> index,
     timestamp |-> t, delay |-> delay, strategy |-> "",
     totalDisplayed |-> count, totalElements |-> Undefined, error |-> ""]

CompletedEvent(t, count) ==
    [type |-> COMPLETED, element |-> NoElement, index |-> Undefined,
     timestamp |-> t, delay |-> Undefined, strategy |-> StrategyName,
     totalDisplayed |-> Undefined, totalElements |-> count, error |-> ""]

ErrorEvent(message, t) ==
    [type |-> ERROR, element |-> NoElement, index |-> Undefined,
     timestamp |-> t, delay |-> Undefined, strategy |-> "",
     totalDisplayed |-> Undefined, totalElements |-> Undefined, error |-> message]

\* faulty variant: no STARTED event is built and emitted
emitStarted_Skipped(w, t) == w

\* VisualizationContext.emitStarted
emitStarted(w, t) == notify(w, StartedEvent(t))

\* faulty variant: the element is not counted
emitElementDisplayed_NotCounted(w, element, index, delay, t) ==
    notify(w, ElementDisplayedEvent(element, index, delay, t, w.elementCount))

\* VisualizationContext.emitElementDisplayed
emitElementDisplayed(w, element, index, delay, t) ==
    LET counted == [w EXCEPT !.elementCount = @ + 1]
    IN  notify(counted, ElementDisplayedEvent(element, index, delay, t, counted.elementCount))

\* VisualizationContext.emitCompleted
emitCompleted(w, t) == notify(w, CompletedEvent(t, w.elementCount))

\* VisualizationContext.emitError
emitError(w, message, t) == notify(w, ErrorEvent(message, t))

SetWorld(w) ==
    /\ observers' = w.observers
    /\ eventHistory' = w.eventHistory
    /\ elementCount' = w.elementCount
    /\ stats' = w.stats
    /\ history' = w.history
    /\ updateCalls' = w.updateCalls

(* ----------------------------- the run --------------------------------- *)
Arrays == UNION {[1..n -> Weights] : n \in 0..MaxLen}

\* no update has been called, no observer throws, no getValue() throws
WellBehaved ==
    /\ updateCalls = [o \in Observers |-> 0]
    /\ uncaught = {}
    /\ throwOn = "none"
    /\ faultAt = 0

\* the context is driven by the run alone
NoClient ==
    /\ emitted = <<>>
    /\ emitResult = "none"
    /\ snapshot = [array |-> <<>>, live |-> FALSE]
    /\ calls = [attach |-> [o \in Observers |-> 0], detach |-> [o \in Observers |-> 0]]
    /\ received = [stats |-> <<>>, history |-> <<>>,
                   resetAfterCompleted |-> FALSE, clearedNonEmpty |-> FALSE]
    /\ logging = LoggingInit
    /\ runnerLog = <<>>
    /\ marks = <<>>
    /\ multi = MultiInit
    /\ invoker = InvokerInit

\* a visualizer constructed on the array, with the StatisticsObserver and the
\* HistoryObserver added, before execute or startWithAbort is called
Init ==
    /\ array \in {Elements(ws) : ws \in Arrays}
    /\ signalMode \in {"none", "fresh", "preaborted"}
    /\ aborted = (signalMode = "preaborted")
    /\ listeners = {}
    /\ observers = <<"stats", "history">>
    /\ eventHistory = <<>>
    /\ elementCount = 0
    /\ stats = StatsInit
    /\ history = <<>>
    /\ timers = {}
    /\ completedCount = 0
    /\ inner = "none"
    /\ visualizeResult = "none"
    /\ executeResult = "none"
    /\ now = NowStart
    /\ abortCalls = 0
    /\ strategy = "async"
    /\ argIsArray = TRUE
    /\ completionTimer = Undefined
    /\ WellBehaved
    /\ NoClient

N == Len(array)

\* faulty variant: the decorator lets every argument through
ValidateArray_Skipped(a) == TRUE

\* faulty variant: the decorator does not look at the length
ValidateArray_ArrayOnly(a) == argIsArray

\* ValidateArray: the decorated visualize throws on a first argument that is no array
\* and on an empty array
ValidateArray(a) == argIsArray /\ Len(a) # 0

\* resolve() / reject() of the promise: only a pending promise changes
Settle(p, outcome) == IF p = "pending" THEN outcome ELSE p

\* faulty variant: the executor does not look at the signal before scheduling
AbortedBeforeStart_Unchecked == FALSE

\* "if (signal?.aborted)" at the top of the executor
AbortedBeforeStart == signalMode # "none" /\ aborted

\* faulty variant: the timer callback does not look at the signal
AbortedAtFire_Unchecked == FALSE

\* "if (signal?.aborted)" in the timer callback
AbortedAtFire == signalMode # "none" /\ aborted

\* faulty variant: the weight of the element is ignored
delayMs_Zero(element) == 0

\* "const delayMs = element.getValue()"
delayMs(element) == getValue(element)

\* faulty variant: the test of TimeoutForEachStrategy, one short of the length
IsLastCompletion_OffByOne(c) == c = Len(array) - 1

\* faulty variant: the counter is compared with a length it never reaches
IsLastCompletion_Never(c) == c = Len(array) + 1

\* "if (completedCount === array.length)"
IsLastCompletion(c) == c = Len(array)

\* faulty variant: the listener stays registered after the last completion
removeEventListener_Kept(ls) == ls

\* "signal?.removeEventListener("abort", onAbort)"
removeEventListener(ls) == ls \ {"onAbort"}

\* "signal?.addEventListener("abort", onAbort)"
addEventListener(ls) == IF signalMode # "none" THEN ls \cup {"onAbort"} ELSE ls

\* faulty variant: the catch treats every rejection as a fault
IsAbortError_Never(p) == FALSE

\* "(error as DOMException).name === "AbortError"" in the catch of visualize
IsAbortError(p) == p = "rejectedAbort"

\* the continuation of "await new Promise(...)" is queued and has not run
MicrotaskQueued ==
    /\ inner \in {"resolved", "rejectedAbort", "rejectedFault"}
    /\ visualizeResult = "pending"

\* "const delayMs = element.getValue()" in the forEach of visualize throws for the
\* element at place i
getValueThrows(i) == i = faultAt

\* the forEach of visualize ends with an exception
SchedulingFault == \E i \in 1..Len(array) : getValueThrows(i)

\* the elements whose setTimeout was called before the forEach ended
Scheduled == {i \in 1..Len(array) : \A j \in 1..i : ~getValueThrows(j)}

\* ArrayVisualizerAsync.execute -> AsyncTimeoutForEachStrategy.visualize, up to the await
Execute ==
    /\ strategy = "async"
    /\ visualizeResult = "none"
    /\ IF ~ValidateArray(array)
       THEN /\ visualizeResult' = "threw"
            /\ executeResult' = "rejected"
            /\ UNCHANGED <<listeners, observers, eventHistory, elementCount, stats,
                           history, updateCalls, timers, inner>>
       ELSE LET w1 == emitStarted(World, now)
                w2 == emitError(w1, "Visualization aborted before start", now)
            IN  IF w1.threw
                THEN \* the exception leaves the async function before its try
                     /\ SetWorld(w1)
                     /\ visualizeResult' = "rejected"
                     /\ executeResult' = "rejected"
                     /\ UNCHANGED <<listeners, timers, inner>>
                ELSE /\ visualizeResult' = "pending"
                     /\ executeResult' = "pending"
                     /\ IF AbortedBeforeStart
                        THEN \* an exception of emitError leaves the executor
                             /\ SetWorld(w2)
                             /\ inner' = Settle("pending", IF w2.threw THEN "rejectedFault"
                                                           ELSE "rejectedAbort")
                             /\ UNCHANGED <<listeners, timers>>
                        ELSE \* an exception of getValue leaves the executor
                             /\ SetWorld(w1)
                             /\ listeners' = addEventListener(listeners)
                             /\ timers' = Scheduled
                             /\ inner' = IF SchedulingFault
                                         THEN Settle("pending", "rejectedFault")
                                         ELSE "pending"
    /\ UNCHANGED <<array, signalMode, aborted, completedCount, now, abortCalls, strategy,
                   argIsArray, completionTimer, uncaught, faultVars, clientVars>>

\* faulty variant: the listener rejects without emitting the ERROR event
onAbort_Silent(w, t) == w

\* onAbort, the listener visualize registers on the signal: the event it emits
onAbort(w, t) == emitError(w, "Visualization aborted", t)

\* the dispatch of "abort" to onAbort: an exception of emitError leaves the listener
\* before reject is called and is reported by the runtime
DispatchAbort ==
    IF "onAbort" \in listeners
    THEN LET w1 == onAbort(World, now)
         IN  /\ SetWorld(w1)
             /\ inner' = IF w1.threw THEN inner ELSE Settle(inner, "rejectedAbort")
             /\ uncaught' = IF w1.threw THEN uncaught \cup {"onAbort"} ELSE uncaught
    ELSE UNCHANGED <<observers, eventHistory, elementCount, stats, history, updateCalls,
                     inner, uncaught>>

\* faulty variant: every call dispatches to the registered listeners, tripped or not
AbortCall_EveryCall ==
    /\ signalMode # "none"
    /\ visualizeResult # "none"
    /\ ~(inner = "resolved" /\ visualizeResult = "pending")
    /\ aborted' = TRUE
    /\ DispatchAbort
    /\ UNCHANGED <<array, signalMode, listeners, timers, completedCount,
                   visualizeResult, executeResult, now, strategy, argIsArray,
                   completionTimer, faultVars, clientVars>>

\* AbortController.abort(): the abort handle of startWithAbort, or the owner of a
\* signal given to execute. The "abort" event is dispatched once, on the first call.
AbortCall ==
    /\ signalMode # "none"
    /\ visualizeResult # "none"
    /\ ~(inner = "resolved" /\ visualizeResult = "pending")
    /\ IF aborted
       THEN UNCHANGED <<aborted, observers, eventHistory, elementCount, stats, history,
                        updateCalls, inner, uncaught>>
       ELSE /\ aborted' = TRUE
            /\ DispatchAbort
    /\ UNCHANGED <<array, signalMode, listeners, timers, completedCount,
                   visualizeResult, executeResult, now, strategy, argIsArray,
                   completionTimer, faultVars, clientVars>>

\* a trip of the signal, the calls not counted
Abort == AbortCall /\ UNCHANGED abortCalls

\* a call of the abort handle, the calls counted
AbortHandle ==
    /\ abortCalls < MaxAbortCalls
    /\ abortCalls' = abortCalls + 1
    /\ AbortCall

\* the callback of setTimeout for the element at index i (1-based here, i - 1 in the
\* source). A timer never runs before its delay has elapsed; it may run late. An
\* exception of an emit method leaves the callback and is reported by the runtime.
TimerCallback(i) ==
    /\ strategy = "async"
    /\ i \in timers
    /\ ~MicrotaskQueued
    /\ timers' = timers \ {i}
    /\ now' = Max(now, NowStart + delayMs(array[i]))
    /\ IF AbortedAtFire
       THEN UNCHANGED <<listeners, observers, eventHistory, elementCount, stats, history,
                        updateCalls, completedCount, inner, uncaught>>
       ELSE LET w1 == emitElementDisplayed(World, array[i], i - 1, delayMs(array[i]), now')
                w2 == emitCompleted(w1, now')
            IN  IF w1.threw
                THEN /\ SetWorld(w1)
                     /\ uncaught' = uncaught \cup {"timer"}
                     /\ UNCHANGED <<listeners, completedCount, inner>>
                ELSE /\ completedCount' = completedCount + 1
                     /\ IF IsLastCompletion(completedCount')
                        THEN /\ listeners' = removeEventListener(listeners)
                             /\ SetWorld(w2)
                             /\ inner' = IF w2.threw THEN inner ELSE Settle(inner, "resolved")
                             /\ uncaught' = IF w2.threw THEN uncaught \cup {"timer"}
                                            ELSE uncaught
                        ELSE /\ SetWorld(w1)
                             /\ UNCHANGED <<listeners, inner, uncaught>>
    /\ UNCHANGED <<array, signalMode, aborted, visualizeResult, executeResult, abortCalls,
                   strategy, argIsArray, completionTimer, faultVars, clientVars>>

\* the value "resolve()" fulfils the promise with: none is passed, and neither
\* visualize nor execute returns one
ResolvedValue == [defined |-> FALSE, elements |-> <<>>]

\* the continuation of the await in visualize (try / catch), then of the await in
\* execute. The catch rethrows a fault after emitError, or throws what emitError threw.
Continuation ==
    /\ MicrotaskQueued
    /\ IF inner = "resolved" \/ IsAbortError(inner)
       THEN /\ visualizeResult' = "fulfilled"
            /\ executeResult' = "fulfilled"
            /\ UNCHANGED <<observers, eventHistory, elementCount, stats, history, updateCalls>>
       ELSE /\ SetWorld(emitError(World, "Error", now))
            /\ visualizeResult' = "rejected"
            /\ executeResult' = "rejected"
    /\ UNCHANGED <<array, signalMode, aborted, listeners, timers, completedCount, inner, now,
                   abortCalls, strategy, argIsArray, completionTimer, uncaught, faultVars,
                   clientVars>>

Next ==
    \/ Execute
    \/ Abort
    \/ \E i \in 1..MaxLen : TimerCallback(i)
    \/ Continuation

Spec == Init /\ [][Next]_vars

\* the event loop runs every callback whose timer is due and every queued continuation
SpecFair == Spec /\ WF_vars(\E i \in 1..MaxLen : TimerCallback(i)) /\ WF_vars(Continuation)

(* ------------------- TimeoutForEachStrategy ---------------------------- *)
\* "if (index === array.length - 1)"
IsLastIndex(index) == index = Len(array) - 1

\* ArrayVisualizer.execute -> TimeoutForEachStrategy.visualize. An exception of
\* emitStarted leaves visualize; one of getValue is caught, reported with emitError
\* and thrown again.
visualizeSync ==
    /\ strategy = "sync"
    /\ visualizeResult = "none"
    /\ IF ~ValidateArray(array)
       THEN /\ visualizeResult' = "threw"
            /\ executeResult' = "threw"
            /\ UNCHANGED <<observers, eventHistory, elementCount, stats, history,
                           updateCalls, timers>>
       ELSE LET w1 == emitStarted(World, now)
                w2 == emitError(w1, "Error", now)
            IN  IF w1.threw
                THEN /\ SetWorld(w1)
                     /\ visualizeResult' = "threw"
                     /\ executeResult' = "threw"
                     /\ UNCHANGED timers
                ELSE /\ SetWorld(IF SchedulingFault THEN w2 ELSE w1)
                     /\ timers' = Scheduled
                     /\ visualizeResult' = IF SchedulingFault THEN "threw" ELSE "returned"
                     /\ executeResult' = IF SchedulingFault THEN "threw" ELSE "returned"
    /\ UNCHANGED <<array, signalMode, aborted, listeners, completedCount, inner, now,
                   abortCalls, strategy, argIsArray, completionTimer, uncaught, faultVars>>

\* a call of ArrayVisualizer.execute by the owner of the visualizer
ExecuteSync == visualizeSync /\ UNCHANGED clientVars

\* the callback of setTimeout for the element at index i (i - 1 in the source)
TimerCallbackSync(i) ==
    /\ strategy = "sync"
    /\ i \in timers
    /\ timers' = timers \ {i}
    /\ now' = Max(now, NowStart + getValue(array[i]))
    /\ LET w1 == emitElementDisplayed(World, array[i], i - 1, getValue(array[i]), now')
       IN  /\ SetWorld(w1)
           /\ uncaught' = IF w1.threw THEN uncaught \cup {"timer"} ELSE uncaught
           /\ completionTimer' = IF ~w1.threw /\ IsLastIndex(i - 1)
                                 THEN now' + CompletionDelay ELSE completionTimer
    /\ UNCHANGED <<array, signalMode, aborted, listeners, completedCount, inner,
                   visualizeResult, executeResult, abortCalls, strategy, argIsArray,
                   faultVars, clientVars>>

\* the callback of the setTimeout registered by the callback of the last index
CompletionTimer ==
    /\ strategy = "sync"
    /\ completionTimer # Undefined
    /\ now' = Max(now, completionTimer)
    /\ LET w1 == emitCompleted(World, now')
       IN  /\ SetWorld(w1)
           /\ uncaught' = IF w1.threw THEN uncaught \cup {"timer"} ELSE uncaught
    /\ completionTimer' = Undefined
    /\ UNCHANGED <<array, signalMode, aborted, listeners, timers, completedCount, inner,
                   visualizeResult, executeResult, abortCalls, strategy, argIsArray,
                   faultVars, clientVars>>

\* a call of visualize of either strategy, on an array or on something that is none
InitStrategies ==
    /\ strategy \in {"async", "sync"}
    /\ argIsArray \in BOOLEAN
    /\ array \in (IF argIsArray THEN {Elements(ws) : ws \in Arrays} ELSE {<<>>})
    /\ signalMode \in (IF strategy = "async" THEN {"none", "fresh", "preaborted"} ELSE {"none"})
    /\ aborted = (signalMode = "preaborted")
    /\ listeners = {}
    /\ observers = <<"stats", "history">>
    /\ eventHistory = <<>>
    /\ elementCount = 0
    /\ stats = StatsInit
    /\ history = <<>>
    /\ timers = {}
    /\ completedCount = 0
    /\ inner = "none"
    /\ visualizeResult = "none"
    /\ executeResult = "none"
    /\ now = NowStart
    /\ abortCalls = 0
    /\ completionTimer = Undefined
    /\ WellBehaved
    /\ NoClient

NextStrategies ==
    \/ Execute
    \/ Abort
    \/ \E i \in 1..MaxLen : TimerCallback(i)
    \/ Continuation
    \/ ExecuteSync
    \/ \E i \in 1..MaxLen : TimerCallbackSync(i)
    \/ CompletionTimer

SpecStrategies == InitStrategies /\ [][NextStrategies]_vars

(* ----------------------- undistorted scheduler -------------------------- *)
\* the timer of index i is the next one due: no pending timer has a shorter delay,
\* and none of the same delay was registered earlier
IsNextDue(i) ==
    \A j \in timers :
        \/ delayMs(array[i]) < delayMs(array[j])
        \/ (delayMs(array[i]) = delayMs(array[j]) /\ i <= j)

\* the callback of the next timer due
TimerCallbackInOrder(i) == i \in timers /\ IsNextDue(i) /\ TimerCallback(i)

\* the run under a scheduler that fires the timers in the order they are due
NextOrdered ==
    \/ Execute
    \/ Abort
    \/ \E i \in 1..MaxLen : TimerCallbackInOrder(i)
    \/ Continuation

SpecOrdered == Init /\ [][NextOrdered]_vars

\* the run with the calls of the abort handle counted
NextAbort ==
    \/ Execute
    \/ AbortHandle
    \/ \E i \in 1..MaxLen : TimerCallback(i)
    \/ Continuation

SpecAbort == Init /\ [][NextAbort]_vars

(* ------------------------------ faults --------------------------------- *)
\* the weights and arrays of the runs with faults: the lightest and the heaviest element
FaultWeights == {0, MaxWeight}
FaultArrays == UNION {[1..n -> FaultWeights] : n \in 1..MaxFaultLen}

\* the observers of a run in the order they were added: the two well-behaved ones
\* alone, or with the faulty one added before, between or after them
ObserverOrders ==
    {<<"stats", "history">>, <<"faulty", "stats", "history">>,
     <<"stats", "faulty", "history">>, <<"stats", "history", "faulty">>}

\* a visualizer of either strategy on a non-empty array, where getValue() of one
\* element may throw during scheduling and the update of one observer may throw
InitFaults ==
    /\ strategy \in {"async", "sync"}
    /\ argIsArray = TRUE
    /\ array \in {Elements(ws) : ws \in FaultArrays}
    /\ signalMode \in (IF strategy = "async" THEN {"none", "fresh", "preaborted"} ELSE {"none"})
    /\ aborted = (signalMode = "preaborted")
    /\ listeners = {}
    /\ observers \in ObserverOrders
    /\ throwOn \in (IF Len(observers) = 3 THEN EventType ELSE {"none"})
    /\ faultAt \in 0..Len(array)
    /\ updateCalls = [o \in Observers |-> 0]
    /\ uncaught = {}
    /\ eventHistory = <<>>
    /\ elementCount = 0
    /\ stats = StatsInit
    /\ history = <<>>
    /\ timers = {}
    /\ completedCount = 0
    /\ inner = "none"
    /\ visualizeResult = "none"
    /\ executeResult = "none"
    /\ now = NowStart
    /\ abortCalls = 0
    /\ completionTimer = Undefined
    /\ NoClient

SpecFaults == InitFaults /\ [][NextStrategies]_vars

(* ----------------------- a client of the context ----------------------- *)
\* the variables of a run, which a call on the context leaves alone
runVars == <<array, signalMode, aborted, listeners, timers, completedCount, inner,
             visualizeResult, executeResult, now, abortCalls, strategy, argIsArray,
             completionTimer, uncaught, faultVars>>

\* the observer o is in the set of observers
Attached(o) == \E k \in 1..Len(observers) : observers[k] = o

\* faulty variant: the observers are kept in a list, which takes an entry per call
attach_List(obs, o) == Append(obs, o)

\* "this.observers.add(observer)": a Set keeps one entry, at the place of the first add
attach(obs, o) == IF \E k \in 1..Len(obs) : obs[k] = o THEN obs ELSE Append(obs, o)

\* faulty variant: the observer stays in the set
detach_Ignored(obs, o) == obs

\* "this.observers.delete(observer)"
detach(obs, o) == SelectSeq(obs, LAMBDA x : x # o)

\* the observers the client attaches and detaches
ClientObservers == {"history", "faulty"}

\* the elements a client hands to emitElementDisplayed
ClientElements == {[id |-> 1, value |-> v] : v \in FaultWeights}

\* a context just constructed, and an observer whose update throws on one event type
InitContext ==
    /\ observers = <<>>
    /\ throwOn \in EventType
    /\ array = <<>>
    /\ signalMode = "none"
    /\ aborted = FALSE
    /\ listeners = {}
    /\ faultAt = 0
    /\ updateCalls = [o \in Observers |-> 0]
    /\ uncaught = {}
    /\ eventHistory = <<>>
    /\ elementCount = 0
    /\ stats = StatsInit
    /\ history = <<>>
    /\ timers = {}
    /\ completedCount = 0
    /\ inner = "none"
    /\ visualizeResult = "none"
    /\ executeResult = "none"
    /\ now = NowStart
    /\ abortCalls = 0
    /\ strategy = "async"
    /\ argIsArray = TRUE
    /\ completionTimer = Undefined
    /\ NoClient

\* VisualizationContext.attach
Attach(o) ==
    /\ observers' = attach(observers, o)
    /\ UNCHANGED <<eventHistory, elementCount, stats, history, updateCalls, runVars, clientVars>>

\* VisualizationContext.detach
Detach(o) ==
    /\ observers' = detach(observers, o)
    /\ UNCHANGED <<eventHistory, elementCount, stats, history, updateCalls, runVars, clientVars>>

\* attach, the calls on the observer counted
AttachCounted(o) ==
    /\ calls.attach[o] < MaxAttachCalls
    /\ calls' = [calls EXCEPT !.attach[o] = @ + 1]
    /\ observers' = attach(observers, o)
    /\ UNCHANGED <<eventHistory, elementCount, stats, history, updateCalls, runVars,
                   emitted, emitResult, snapshot, received, logging, runnerLog,
                   marks, multi, invoker>>

\* detach, the calls on the observer counted
DetachCounted(o) ==
    /\ calls.detach[o] < MaxAttachCalls
    /\ calls' = [calls EXCEPT !.detach[o] = @ + 1]
    /\ observers' = detach(observers, o)
    /\ UNCHANGED <<eventHistory, elementCount, stats, history, updateCalls, runVars,
                   emitted, emitResult, snapshot, received, logging, runnerLog,
                   marks, multi, invoker>>

\* a call of an emit method by the client: w is the context after the call, event the
\* event the method built
ClientEmit(w, event) ==
    /\ SetWorld(w)
    /\ emitted' = Append(emitted, event)
    /\ emitResult' = IF w.threw THEN "threw" ELSE "returned"
    /\ snapshot' = IF snapshot.live THEN [snapshot EXCEPT !.array = w.eventHistory]
                    ELSE snapshot
    /\ UNCHANGED <<runVars, apiVars>>

EmitStarted ==
    /\ Len(eventHistory) < MaxEvents
    /\ ClientEmit(emitStarted(World, now), StartedEvent(now))

EmitElementDisplayed(element) ==
    /\ Len(eventHistory) < MaxEvents
    /\ ClientEmit(emitElementDisplayed(World, element, element.id - 1, getValue(element), now),
                  ElementDisplayedEvent(element, element.id - 1, getValue(element), now,
                                        elementCount + 1))

EmitCompleted ==
    /\ Len(eventHistory) < MaxEvents
    /\ ClientEmit(emitCompleted(World, now), CompletedEvent(now, elementCount))

EmitError ==
    /\ Len(eventHistory) < MaxEvents
    /\ ClientEmit(emitError(World, "Error", now), ErrorEvent("Error", now))

\* faulty variant: the array of the context itself is returned
getEventHistory_Live(h) == [array |-> h, live |-> TRUE]

\* "return [...this.eventHistory]": a new array with the same entries
getEventHistory(h) == [array |-> h, live |-> FALSE]

\* VisualizationContext.getEventHistory
GetEventHistory ==
    /\ snapshot' = getEventHistory(eventHistory)
    /\ UNCHANGED <<observers, eventHistory, elementCount, stats, history, updateCalls,
                   emitted, emitResult, runVars, apiVars>>

NextContext ==
    \/ \E o \in ClientObservers : Attach(o)
    \/ \E o \in ClientObservers : Detach(o)
    \/ EmitStarted
    \/ \E element \in ClientElements : EmitElementDisplayed(element)
    \/ EmitCompleted
    \/ EmitError
    \/ GetEventHistory

SpecContext == InitContext /\ [][NextContext]_vars

\* the changes a caller makes to the array getEventHistory returned
Mutations == {"push", "pop", "reverse"}

Mutated(a, m) ==
    CASE m = "push" -> Append(a, ErrorEvent("pushed by the caller", now))
      [] m = "pop" -> SubSeq(a, 1, Len(a) - 1)
      [] OTHER -> [k \in 1..Len(a) |-> a[Len(a) + 1 - k]]

\* the caller adds an entry to the returned array, removes one or reorders them; a
\* change of the array of the context itself is a change of the history
MutateSnapshot(m) ==
    /\ CASE m = "push" -> Len(snapshot.array) < MaxEvents
         [] m = "pop" -> Len(snapshot.array) > 0
         [] OTHER -> Len(snapshot.array) > 1
    /\ snapshot' = [snapshot EXCEPT !.array = Mutated(@, m)]
    /\ eventHistory' = IF snapshot.live THEN snapshot'.array ELSE eventHistory
    /\ UNCHANGED <<observers, elementCount, stats, history, updateCalls, emitted,
                   emitResult, runVars, apiVars>>

\* a context with its observers attached in some order, before the first emission
InitEmit ==
    /\ observers \in ObserverOrders
    /\ throwOn \in (IF Len(observers) = 3 THEN EventType ELSE {"none"})
    /\ array = <<>>
    /\ signalMode = "none"
    /\ aborted = FALSE
    /\ listeners = {}
    /\ faultAt = 0
    /\ updateCalls = [o \in Observers |-> 0]
    /\ uncaught = {}
    /\ eventHistory = <<>>
    /\ elementCount = 0
    /\ stats = StatsInit
    /\ history = <<>>
    /\ timers = {}
    /\ completedCount = 0
    /\ inner = "none"
    /\ visualizeResult = "none"
    /\ executeResult = "none"
    /\ now = NowStart
    /\ abortCalls = 0
    /\ strategy = "async"
    /\ argIsArray = TRUE
    /\ completionTimer = Undefined
    /\ NoClient

\* the emissions of a client on a context whose observers stay attached
NextEmit ==
    \/ EmitStarted
    \/ \E element \in ClientElements : EmitElementDisplayed(element)
    \/ EmitCompleted
    \/ EmitError

SpecEmit == InitEmit /\ [][NextEmit]_vars

\* the observers whose attach and detach calls are counted
CountedObservers == {"history"}

\* the context with repeated attach and detach calls on the same observer
NextAttach ==
    \/ \E o \in CountedObservers : AttachCounted(o)
    \/ \E o \in CountedObservers : DetachCounted(o)
    \/ NextEmit

SpecAttach == InitContext /\ [][NextAttach]_vars

\* the emissions on a context whose history a caller reads and whose copy it changes
NextCopy ==
    \/ NextEmit
    \/ GetEventHistory
    \/ \E m \in Mutations : MutateSnapshot(m)

SpecCopy == InitEmit /\ [][NextCopy]_vars

(* ----------------------- clients of the observers ---------------------- *)
\* the variables of the context, which a call on an observer leaves alone
contextVars == <<observers, eventHistory, elementCount, updateCalls>>

\* the kinds of events a client hands to an observer, and the event of a kind
EventKinds ==
    {[type |-> t, element |-> NoElement] : t \in {STARTED, COMPLETED, ERROR}}
        \cup {[type |-> ELEMENT_DISPLAYED, element |-> e] : e \in ClientElements}

ObserverEvent(kind) ==
    CASE kind.type = STARTED -> StartedEvent(now)
      [] kind.type = ELEMENT_DISPLAYED ->
            ElementDisplayedEvent(kind.element, 0, getValue(kind.element), now, 1)
      [] kind.type = COMPLETED -> CompletedEvent(now, 1)
      [] OTHER -> ErrorEvent("Error", now)

\* a StatisticsObserver and a HistoryObserver just constructed
InitObservers ==
    /\ observers = <<>>
    /\ throwOn = "none"
    /\ array = <<>>
    /\ signalMode = "none"
    /\ aborted = FALSE
    /\ listeners = {}
    /\ faultAt = 0
    /\ updateCalls = [o \in Observers |-> 0]
    /\ uncaught = {}
    /\ eventHistory = <<>>
    /\ elementCount = 0
    /\ stats = StatsInit
    /\ history = <<>>
    /\ timers = {}
    /\ completedCount = 0
    /\ inner = "none"
    /\ visualizeResult = "none"
    /\ executeResult = "none"
    /\ now = NowStart
    /\ abortCalls = 0
    /\ strategy = "async"
    /\ argIsArray = TRUE
    /\ completionTimer = Undefined
    /\ NoClient

\* a call of StatisticsObserver.update
StatsReceive(kind) ==
    /\ Len(received.stats) < MaxReceived
    /\ stats' = StatisticsUpdate(stats, ObserverEvent(kind))
    /\ received' = [received EXCEPT !.stats = Append(@, ObserverEvent(kind))]
    /\ UNCHANGED <<history, contextVars, runVars, emitted, emitResult, snapshot, calls,
                   logging, runnerLog, marks, multi, invoker>>

\* a call of StatisticsObserver.reset
StatsReset ==
    /\ stats' = reset(stats)
    /\ received' = [received EXCEPT
                       !.stats = <<>>,
                       !.resetAfterCompleted =
                           \E k \in 1..Len(received.stats) : received.stats[k].type = COMPLETED]
    /\ UNCHANGED <<history, contextVars, runVars, emitted, emitResult, snapshot, calls,
                   logging, runnerLog, marks, multi, invoker>>

NextStatistics ==
    \/ \E kind \in EventKinds : StatsReceive(kind)
    \/ StatsReset

SpecStatistics == InitObservers /\ [][NextStatistics]_vars

\* a call of HistoryObserver.update
HistoryReceive(kind) ==
    /\ Len(received.history) < MaxEvents
    /\ history' = HistoryUpdate(history, ObserverEvent(kind))
    /\ received' = [received EXCEPT !.history = Append(@, ObserverEvent(kind))]
    /\ snapshot' = IF snapshot.live THEN [snapshot EXCEPT !.array = history'] ELSE snapshot
    /\ UNCHANGED <<stats, contextVars, runVars, emitted, emitResult, calls,
                   logging, runnerLog, marks, multi, invoker>>

\* a call of HistoryObserver.clear: the observer takes a new array
HistoryClear ==
    /\ history' = clear(history)
    /\ received' = [received EXCEPT !.history = <<>>,
                                    !.clearedNonEmpty = (received.history # <<>>)]
    /\ snapshot' = [snapshot EXCEPT !.live = FALSE]
    /\ UNCHANGED <<stats, contextVars, runVars, emitted, emitResult, calls,
                   logging, runnerLog, marks, multi, invoker>>

\* a call of HistoryObserver.getHistory
GetHistory ==
    /\ snapshot' = getHistory(history)
    /\ UNCHANGED <<stats, history, contextVars, runVars, emitted, emitResult, apiVars>>

\* the entries a caller puts into the array getHistory returned
ForeignEntry ==
    [event |-> ErrorEvent("pushed by the caller", now),
     formattedTime |-> toLocaleTimeString(now)]

\* the caller adds an entry to the array getHistory returned, removes one or reorders
\* them; a change of the array of the observer itself is a change of its record
MutateHistoryCopy(m) ==
    /\ CASE m = "push" -> Len(snapshot.array) < MaxEvents
         [] m = "pop" -> Len(snapshot.array) > 0
         [] OTHER -> Len(snapshot.array) > 1
    /\ snapshot' = [snapshot EXCEPT
                       !.array = IF m = "push" THEN Append(@, ForeignEntry) ELSE Mutated(@, m)]
    /\ history' = IF snapshot.live THEN snapshot'.array ELSE history
    /\ UNCHANGED <<stats, contextVars, runVars, emitted, emitResult, apiVars>>

NextHistoryObserver ==
    \/ \E kind \in EventKinds : HistoryReceive(kind)
    \/ HistoryClear
    \/ GetHistory
    \/ \E m \in Mutations : MutateHistoryCopy(m)

SpecHistoryObserver == InitObservers /\ [][NextHistoryObserver]_vars

\* new ConsoleLoggingObserver(): the field initialiser takes getConfig() once
ConstructLogger ==
    /\ ~logging.constructed
    /\ logging' = [logging EXCEPT !.constructed = TRUE,
                                  !.observerConfig = getConfig(logging.config)]
    /\ UNCHANGED <<stats, history, contextVars, runVars, emitted, emitResult, snapshot,
                   calls, received, runnerLog, marks, multi, invoker>>

\* ConfigurationManager.getInstance().updateConfig({enableLogging: b})
UpdateConfig(b) ==
    /\ logging.updates < MaxConfigUpdates
    /\ logging' = [logging EXCEPT !.config = updateConfig(@, [enableLogging |-> b]),
                                  !.updates = @ + 1]
    /\ UNCHANGED <<stats, history, contextVars, runVars, emitted, emitResult, snapshot,
                   calls, received, runnerLog, marks, multi, invoker>>

\* a call of ConsoleLoggingObserver.update; handed records the event with the
\* enableLogging of the manager at the call
LoggerUpdate(kind) ==
    /\ logging.constructed
    /\ Len(logging.handed) < MaxReceived
    /\ logging' = [logging EXCEPT
                      !.output = ConsoleLoggingUpdate(logging.observerConfig, @,
                                                      ObserverEvent(kind)),
                      !.handed = Append(@, [type |-> kind.type,
                                            enabled |-> logging.config.enableLogging])]
    /\ UNCHANGED <<stats, history, contextVars, runVars, emitted, emitResult, snapshot,
                   calls, received, runnerLog, marks, multi, invoker>>

NextLogging ==
    \/ ConstructLogger
    \/ \E b \in BOOLEAN : UpdateConfig(b)
    \/ \E kind \in EventKinds : LoggerUpdate(kind)

SpecLogging == InitObservers /\ [][NextLogging]_vars

(* --------------- TimeoutForEachStrategy, timers in order ---------------- *)
\* the values of the elements: some below the delay of the completion timer, one above
SyncWeights == {0, MaxWeight, CompletionDelay + MaxWeight + 1}
SyncArrays == UNION {[1..n -> SyncWeights] : n \in 0..MaxLen}

\* when the timer of the element at i, registered by visualize at NowStart, is due
Due(i) == NowStart + getValue(array[i])

\* the timer of the element at i is the next one due: no element timer is due before it
\* or was registered before it for the same time, and the completion timer is not due
\* before it
IsNextDueSync(i) ==
    /\ \A j \in timers : Due(i) < Due(j) \/ (Due(i) = Due(j) /\ i <= j)
    /\ completionTimer # Undefined => Due(i) <= completionTimer

\* the callback of an element, run when it is due
TimerCallbackSyncInOrder(i) == i \in timers /\ IsNextDueSync(i) /\ TimerCallbackSync(i)

\* the callback of the completion timer, run when no element timer is due before it
CompletionTimerInOrder ==
    /\ \A j \in timers : completionTimer <= Due(j)
    /\ CompletionTimer

\* an ArrayVisualizer with a StatisticsObserver and a HistoryObserver added
InitSyncOrdered ==
    /\ strategy = "sync"
    /\ argIsArray \in BOOLEAN
    /\ array \in (IF argIsArray THEN {Elements(ws) : ws \in SyncArrays} ELSE {<<>>})
    /\ signalMode = "none"
    /\ aborted = FALSE
    /\ listeners = {}
    /\ observers = <<"stats", "history">>
    /\ eventHistory = <<>>
    /\ elementCount = 0
    /\ stats = StatsInit
    /\ history = <<>>
    /\ timers = {}
    /\ completedCount = 0
    /\ inner = "none"
    /\ visualizeResult = "none"
    /\ executeResult = "none"
    /\ now = NowStart
    /\ abortCalls = 0
    /\ completionTimer = Undefined
    /\ WellBehaved
    /\ NoClient

\* the run of the strategy under a scheduler that fires the timers in the order they
\* are due
NextSyncOrdered ==
    \/ ExecuteSync
    \/ \E i \in 1..MaxLen : TimerCallbackSyncInOrder(i)
    \/ CompletionTimerInOrder

SpecSyncOrdered == InitSyncOrdered /\ [][NextSyncOrdered]_vars

(* ------------------------------ runner --------------------------------- *)
\* the steps of AbstractVisualizationRunner.run in the order of its statements
RunSteps == <<"beforeRun", "createStrategy", "buildVisualizer", "executeVisualization",
              "afterRun">>

\* AbstractVisualizationRunner.run(array, TIMEOUT_FOREACH), one synchronous call:
\* an exception of executeVisualization leaves run before afterRun. The
\* ConsoleLoggingObserver that build() attaches writes to the console alone.
RunnerRun ==
    /\ runnerLog = <<>>
    /\ visualizeSync
    /\ runnerLog' = IF executeResult' = "threw"
                    THEN SubSeq(RunSteps, 1, 4) ELSE RunSteps
    /\ UNCHANGED <<emitted, emitResult, snapshot, calls, received, logging, marks, multi,
                   invoker>>

\* the array handed to run, the visualizer not yet built
InitRunner ==
    /\ strategy = "sync"
    /\ argIsArray \in BOOLEAN
    /\ array \in (IF argIsArray THEN {Elements(ws) : ws \in Arrays} ELSE {<<>>})
    /\ signalMode = "none"
    /\ aborted = FALSE
    /\ listeners = {}
    /\ observers = <<>>
    /\ eventHistory = <<>>
    /\ elementCount = 0
    /\ stats = StatsInit
    /\ history = <<>>
    /\ timers = {}
    /\ completedCount = 0
    /\ inner = "none"
    /\ visualizeResult = "none"
    /\ executeResult = "none"
    /\ now = NowStart
    /\ abortCalls = 0
    /\ completionTimer = Undefined
    /\ WellBehaved
    /\ NoClient

NextRunner ==
    \/ RunnerRun
    \/ \E i \in 1..MaxLen : TimerCallbackSync(i)
    \/ CompletionTimer

SpecRunner == InitRunner /\ [][NextRunner]_vars

(* ------------------ observers added and removed in a run ---------------- *)
\* ArrayVisualizerAsync.addObserver(historyObserver), called by the owner of the
\* visualizer before, during or after the run; never between the settling of the
\* inner promise by a timer callback and the continuation of visualize
AddObserver ==
    /\ Len(marks) < MaxAttachCalls
    /\ ~(inner = "resolved" /\ visualizeResult = "pending")
    /\ observers' = attach(observers, "history")
    /\ marks' = Append(marks, [call |-> "addObserver", at |-> Len(eventHistory)])
    /\ UNCHANGED <<eventHistory, elementCount, stats, history, updateCalls, runVars,
                   emitted, emitResult, snapshot, calls, received, logging, runnerLog,
                   multi, invoker>>

\* ArrayVisualizerAsync.removeObserver(historyObserver)
RemoveObserver ==
    /\ Len(marks) < MaxAttachCalls
    /\ ~(inner = "resolved" /\ visualizeResult = "pending")
    /\ observers' = detach(observers, "history")
    /\ marks' = Append(marks, [call |-> "removeObserver", at |-> Len(eventHistory)])
    /\ UNCHANGED <<eventHistory, elementCount, stats, history, updateCalls, runVars,
                   emitted, emitResult, snapshot, calls, received, logging, runnerLog,
                   multi, invoker>>

\* a visualizer with a StatisticsObserver and a HistoryObserver added, the run with
\* no signal or with one that may be tripped
InitMidRun ==
    /\ array \in {Elements(ws) : ws \in FaultArrays}
    /\ signalMode \in {"none", "fresh"}
    /\ aborted = FALSE
    /\ listeners = {}
    /\ observers = <<"stats", "history">>
    /\ eventHistory = <<>>
    /\ elementCount = 0
    /\ stats = StatsInit
    /\ history = <<>>
    /\ timers = {}
    /\ completedCount = 0
    /\ inner = "none"
    /\ visualizeResult = "none"
    /\ executeResult = "none"
    /\ now = NowStart
    /\ abortCalls = 0
    /\ strategy = "async"
    /\ argIsArray = TRUE
    /\ completionTimer = Undefined
    /\ WellBehaved
    /\ NoClient

NextMidRun ==
    \/ Execute
    \/ Abort
    \/ \E i \in 1..MaxLen : TimerCallbackInOrder(i)
    \/ Continuation
    \/ AddObserver
    \/ RemoveObserver

SpecMidRun == InitMidRun /\ [][NextMidRun]_vars

(* ------------------- two runs, one or two visualizers ------------------- *)
\* the elements of the array of run r: objects of their own, with values that rise
\* with the index, so that the timers of a run are due in the order of the indices
RunElements(r, n) == [i \in 1..n |-> [id |-> (r - 1) * MaxRunLen + i, value |-> i - 1]]

\* VisualizationContext.notify on the context ctx of a visualizer with no observer
\* added; r is the run whose code makes the call
notifyOn(ctx, event, r) ==
    [ctx EXCEPT !.eventHistory = Append(@, event), !.emittedBy = Append(@, r)]

emitStartedOn(ctx, r) == notifyOn(ctx, StartedEvent(now), r)

emitElementDisplayedOn(ctx, r, element, index, delay) ==
    LET counted == [ctx EXCEPT !.elementCount = @ + 1]
    IN  notifyOn(counted,
                 ElementDisplayedEvent(element, index, delay, now, counted.elementCount), r)

emitCompletedOn(ctx, r) == notifyOn(ctx, CompletedEvent(now, ctx.elementCount), r)

emitErrorOn(ctx, message, r) == notifyOn(ctx, ErrorEvent(message, now), r)

\* faulty variant: the two visualizers work on one context
contextOf_Shared(v) == "first"

\* "this.context = new VisualizationContext(...)" in the constructor: each
\* visualizer has the context it created
contextOf(v) == v

\* the continuation of the await of run r is queued and has not run
Queued(r) ==
    /\ multi.runs[r].state = "pending"
    /\ multi.runs[r].inner \in {"resolved", "rejectedAbort"}

\* the runs are started in the order of their ids, the first on the first visualizer
MayStart(r, v) ==
    /\ multi.runs[r].state = "none"
    /\ \A q \in RunIds : ~Queued(q)
    /\ IF r = 1 THEN v = "first" ELSE multi.runs[1].state # "none"

\* execute(signal) -> visualize up to the await, for a signal that is not tripped or
\* for none: STARTED is emitted, onAbort registered, the timers scheduled
Started(r, v, n, withSignal) ==
    [multi EXCEPT
        !.contexts[contextOf(v)] = emitStartedOn(@, r),
        !.runs[r] = [state |-> "pending", visualizer |-> v, hasSignal |-> withSignal,
                     aborted |-> FALSE, listener |-> withSignal, length |-> n,
                     timers |-> 1..n, completedCount |-> 0, inner |-> "pending"]]

\* ArrayVisualizerAsync.execute() on the visualizer v, no signal
ExecuteRun(r, v, n) ==
    /\ MayStart(r, v)
    /\ multi' = Started(r, v, n, FALSE)
    /\ UNCHANGED <<stats, history, contextVars, runVars, emitted, emitResult, snapshot,
                   calls, received, logging, runnerLog, marks, invoker>>

\* ArrayVisualizerAsync.startWithAbort() on the visualizer v: the new controller,
\* named by the run it is made for, replaces the one in the field
StartWithAbort(r, v, n) ==
    /\ MayStart(r, v)
    /\ multi' = [Started(r, v, n, TRUE) EXCEPT !.abortController[v] = r]
    /\ UNCHANGED <<stats, history, contextVars, runVars, emitted, emitResult, snapshot,
                   calls, received, logging, runnerLog, marks, invoker>>

\* the abort handle returned by the startWithAbort call of run r:
\* "() => this.abortController?.abort()" reads the field when it is called. A signal
\* dispatches "abort" once; onAbort emits ERROR and rejects the inner promise.
MultiAbortHandle(r) ==
    /\ multi.runs[r].state # "none"
    /\ multi.runs[r].hasSignal
    /\ multi.handles[r].calls < MaxAbortCalls
    /\ \A q \in RunIds : ~(Queued(q) /\ multi.runs[q].inner = "resolved")
    /\ LET v == multi.runs[r].visualizer
           c == multi.abortController[v]
           counted == [multi EXCEPT !.handles[r].calls = @ + 1]
           tripped == [counted EXCEPT !.runs[c].aborted = TRUE,
                                      !.handles[r].tripped = @ \cup {c}]
       IN  multi' =
              IF multi.runs[c].aborted THEN counted
              ELSE IF multi.runs[c].listener
                   THEN [tripped EXCEPT
                            !.contexts[contextOf(multi.runs[c].visualizer)] =
                                emitErrorOn(@, "Visualization aborted", c),
                            !.runs[c].inner = Settle(@, "rejectedAbort")]
                   ELSE tripped
    /\ UNCHANGED <<stats, history, contextVars, runVars, emitted, emitResult, snapshot,
                   calls, received, logging, runnerLog, marks, invoker>>

\* the callback of the timer of run r that is due next
MultiTimerCallback(r) ==
    /\ multi.runs[r].timers # {}
    /\ \A q \in RunIds : ~Queued(q)
    /\ LET run == multi.runs[r]
           i == CHOOSE j \in run.timers : \A k \in run.timers : j <= k
           element == RunElements(r, run.length)[i]
           fired == [multi EXCEPT !.runs[r].timers = @ \ {i}]
           shown == [fired EXCEPT
                        !.contexts[contextOf(run.visualizer)] =
                            emitElementDisplayedOn(@, r, element, i - 1, getValue(element)),
                        !.runs[r].completedCount = @ + 1]
       IN  multi' =
              IF run.hasSignal /\ run.aborted THEN fired
              ELSE IF shown.runs[r].completedCount = run.length
                   THEN [shown EXCEPT
                            !.runs[r].listener = FALSE,
                            !.contexts[contextOf(run.visualizer)] = emitCompletedOn(@, r),
                            !.runs[r].inner = Settle(@, "resolved")]
                   ELSE shown
    /\ UNCHANGED <<stats, history, contextVars, runVars, emitted, emitResult, snapshot,
                   calls, received, logging, runnerLog, marks, invoker>>

\* the continuation of the await of run r: the catch ignores an AbortError
MultiContinuation(r) ==
    /\ Queued(r)
    /\ multi' = [multi EXCEPT !.runs[r].state = "fulfilled"]
    /\ UNCHANGED <<stats, history, contextVars, runVars, emitted, emitResult, snapshot,
                   calls, received, logging, runnerLog, marks, invoker>>

NextRuns ==
    \/ \E r \in RunIds, v \in Visualizers, n \in 1..MaxRunLen : ExecuteRun(r, v, n)
    \/ \E r \in RunIds, v \in Visualizers, n \in 1..MaxRunLen : StartWithAbort(r, v, n)
    \/ \E r \in RunIds : MultiAbortHandle(r)
    \/ \E r \in RunIds : MultiTimerCallback(r)
    \/ \E r \in RunIds : MultiContinuation(r)

SpecRuns == InitObservers /\ [][NextRuns]_vars

(* ------------------------- command invoker ----------------------------- *)
\* the commands a client enqueues: an UpdateConfigCommand for either value of
\* enableLogging, and an ExecuteVisualizationCommand on a visualizer of an empty array
CommandKinds ==
    {[kind |-> "UpdateConfigCommand", enableLogging |-> b] : b \in BOOLEAN}
        \cup {[kind |-> "ExecuteVisualizationCommand", enableLogging |-> FALSE]}

\* command.execute() throws: ArrayVisualizer.execute on an empty array is rejected by
\* the ValidateArray decorator of visualize before anything is emitted
Throws(command) == command.kind = "ExecuteVisualizationCommand"

\* the invoker and the configuration, the part of the state executeNext works on
Invocation == [invoker |-> invoker, logging |-> logging, threw |-> FALSE]

\* faulty variant: the command enqueued last is taken
shift_Pop(queue) ==
    [command |-> queue[Len(queue)], rest |-> SubSeq(queue, 1, Len(queue) - 1)]

\* commandQueue.shift(): the first command, and the queue without it
shift(queue) == [command |-> Head(queue), rest |-> Tail(queue)]

\* CommandInvoker.executeNext: the command is taken from the queue, executed, and
\* then pushed to executedCommands; an exception of execute leaves the method
executeNext(c) ==
    IF c.invoker.commandQueue = <<>> THEN c
    ELSE LET taken == shift(c.invoker.commandQueue)
             called == [c EXCEPT !.invoker.commandQueue = taken.rest,
                                 !.invoker.ran = Append(@, taken.command.id)]
         IN  IF Throws(taken.command)
             THEN [called EXCEPT !.threw = TRUE]
             ELSE [called EXCEPT
                      !.logging.config =
                          updateConfig(@, [enableLogging |-> taken.command.enableLogging]),
                      !.invoker.executedCommands = Append(@, taken.command)]

\* CommandInvoker.executeAll: executeNext while the queue is not empty
RECURSIVE executeAll(_)
executeAll(c) ==
    IF c.invoker.commandQueue = <<>> \/ c.threw THEN c ELSE executeAll(executeNext(c))

getQueueSize(inv) == Len(inv.commandQueue)
getExecutedCommands(inv) == inv.executedCommands

\* the writes of a call to the invoker and the configuration, and how the call ended
SetInvocation(c) ==
    /\ invoker' = [c.invoker EXCEPT !.result = IF c.threw THEN "threw" ELSE "returned"]
    /\ logging' = c.logging

\* CommandInvoker.enqueueCommand
EnqueueCommand(kind) ==
    /\ invoker.enqueued < MaxCommands
    /\ invoker' = [invoker EXCEPT
                      !.commandQueue =
                          Append(@, [id |-> invoker.enqueued + 1, kind |-> kind.kind,
                                     enableLogging |-> kind.enableLogging]),
                      !.enqueued = @ + 1]
    /\ UNCHANGED <<stats, history, contextVars, runVars, emitted, emitResult, snapshot,
                   calls, received, logging, runnerLog, marks, multi>>

\* a call of executeNext by the client
ExecuteNext ==
    /\ SetInvocation(executeNext(Invocation))
    /\ UNCHANGED <<stats, history, contextVars, runVars, emitted, emitResult, snapshot,
                   calls, received, runnerLog, marks, multi>>

\* a call of executeAll by the client
ExecuteAll ==
    /\ SetInvocation(executeAll(Invocation))
    /\ UNCHANGED <<stats, history, contextVars, runVars, emitted, emitResult, snapshot,
                   calls, received, runnerLog, marks, multi>>

\* CommandInvoker.clearQueue
ClearQueue ==
    /\ invoker.commandQueue # <<>>
    /\ invoker' = [invoker EXCEPT !.commandQueue = <<>>,
                                  !.cleared = @ + Len(invoker.commandQueue)]
    /\ UNCHANGED <<stats, history, contextVars, runVars, emitted, emitResult, snapshot,
                   calls, received, logging, runnerLog, marks, multi>>

NextInvoker ==
    \/ \E kind \in CommandKinds : EnqueueCommand(kind)
    \/ ExecuteNext
    \/ ExecuteAll
    \/ ClearQueue

SpecInvoker == InitObservers /\ [][NextInvoker]_vars

(* ------------------------------ claims --------------------------------- *)
\* the call of visualize passed validation and emitted STARTED
RunStarted == visualizeResult \notin {"none", "threw"}

\* the places of the events of type t in the context history
Positions(t) == {p \in 1..Len(eventHistory) : eventHistory[p].type = t}

\* C1: for a non-empty array of N elements run without cancellation, once all timers
\* have fired the history holds exactly N ELEMENT_DISPLAYED events, every original
\* index 0..N-1 is in exactly one of them, and the event of index i carries the
\* element array[i] and delay = array[i].getValue().
C1_EveryElementDisplayedOnce ==
    (RunStarted /\ ~aborted /\ timers = {}) =>
        /\ Cardinality(Positions(ELEMENT_DISPLAYED)) = N
        /\ \A i \in 0..(N - 1) :
              Cardinality({p \in Positions(ELEMENT_DISPLAYED) : eventHistory[p].index = i}) = 1
        /\ \A p \in Positions(ELEMENT_DISPLAYED) :
              /\ eventHistory[p].index \in 0..(N - 1)
              /\ eventHistory[p].element = array[eventHistory[p].index + 1]
              /\ eventHistory[p].delay = getValue(array[eventHistory[p].index + 1])

\* three elements of different weights, the heaviest first, all displayed, no cancellation
C1_Witness ==
    /\ N = 3 /\ array[1].value = 2 /\ array[2].value = 0 /\ array[3].value = 1
    /\ RunStarted /\ ~aborted /\ timers = {}
    /\ Cardinality(Positions(ELEMENT_DISPLAYED)) = 3

\* C2: in every run STARTED is emitted exactly once and precedes every
\* ELEMENT_DISPLAYED event of the history, elements of weight 0 included.
C2_StartedOnceAndFirst ==
    /\ Cardinality(Positions(STARTED)) = (IF RunStarted THEN 1 ELSE 0)
    /\ \A p \in Positions(ELEMENT_DISPLAYED) : \E q \in Positions(STARTED) : q < p

\* an element of weight 0 has been displayed
C2_Witness ==
    \E p \in Positions(ELEMENT_DISPLAYED) : eventHistory[p].delay = 0

\* COMPLETED is in the history at most once, all N ELEMENT_DISPLAYED events are before
\* it and none after it
C3_CompletedPlace ==
    /\ Cardinality(Positions(COMPLETED)) <= 1
    /\ \A c \in Positions(COMPLETED) :
          /\ Cardinality({p \in Positions(ELEMENT_DISPLAYED) : p < c}) = N
          /\ \A p \in Positions(ELEMENT_DISPLAYED) : p < c

\* C3: COMPLETED is emitted at most once, only after all N ELEMENT_DISPLAYED events of
\* the run (none follows it), and only by a step before and after which the abort
\* signal is not tripped.
C3_CompletedOnlyAfterAllAndNotAborted ==
    /\ []C3_CompletedPlace
    /\ [][Positions(COMPLETED)' # Positions(COMPLETED) => (~aborted /\ ~aborted')]_vars

\* a run with a signal completed all of its three elements
C3_Witness ==
    /\ N = 3 /\ signalMode = "fresh"
    /\ Cardinality(Positions(COMPLETED)) = 1
    /\ Cardinality(Positions(ELEMENT_DISPLAYED)) = 3

\* C4: when the abort signal is tripped after the run started and before all N
\* elements completed, the run emits exactly one ERROR event and never COMPLETED.
C4_TripMidRunOneErrorNoCompleted ==
    (RunStarted /\ signalMode = "fresh" /\ aborted /\ completedCount < N) =>
        /\ Cardinality(Positions(ERROR)) = 1
        /\ Positions(COMPLETED) = {}

\* tripped after one of three elements was displayed; the other two timers have run since
C4_Witness ==
    /\ N = 3 /\ signalMode = "fresh" /\ aborted
    /\ completedCount = 1 /\ timers = {}
    /\ visualizeResult = "fulfilled"

\* once the signal is tripped no step adds an ELEMENT_DISPLAYED or COMPLETED event or
\* changes completedCount, and the events already in the history stay
C5_NoEmissionAfterTrip ==
    aborted =>
        /\ Positions(ELEMENT_DISPLAYED)' = Positions(ELEMENT_DISPLAYED)
        /\ Positions(COMPLETED)' = Positions(COMPLETED)
        /\ completedCount' = completedCount
        /\ Len(eventHistory') >= Len(eventHistory)
        /\ SubSeq(eventHistory', 1, Len(eventHistory)) = eventHistory

\* weights [1000, 2000] (in units of 1000 ms) cancelled right after the start: the
\* ERROR event directly follows STARTED
C5_CancelledImmediately ==
    /\ N = 2 /\ array[1].value = 1 /\ array[2].value = 2
    /\ signalMode = "fresh"
    /\ Len(eventHistory) >= 2 /\ eventHistory[2].type = ERROR

\* C5: after the abort signal is tripped, no timer that fires later emits
\* ELEMENT_DISPLAYED or COMPLETED or changes the completed counter, and the events
\* emitted before the trip stay in the history; weights [1000, 2000] cancelled
\* immediately after the start give no ELEMENT_DISPLAYED and no COMPLETED.
C5_TimersAfterTripDropped ==
    /\ [][C5_NoEmissionAfterTrip]_vars
    /\ [](C5_CancelledImmediately =>
            Positions(ELEMENT_DISPLAYED) = {} /\ Positions(COMPLETED) = {})

\* weights [1000, 2000] cancelled right after the start, both timers have run since
C5_Witness == C5_CancelledImmediately /\ aborted /\ timers = {}

\* C6: when the signal is already tripped at the call of visualize on a non-empty
\* array, the run emits one ERROR event, schedules no timer, emits no
\* ELEMENT_DISPLAYED and no COMPLETED: the history is exactly [STARTED, ERROR].
C6_AbortedBeforeStart ==
    (RunStarted /\ signalMode = "preaborted") =>
        /\ [p \in 1..Len(eventHistory) |-> eventHistory[p].type] = <<STARTED, ERROR>>
        /\ eventHistory[2].error = "Visualization aborted before start"
        /\ timers = {}
        /\ listeners = {}
        /\ completedCount = 0

\* a run of three elements on a tripped signal, its promise settled
C6_Witness ==
    /\ N = 3 /\ signalMode = "preaborted" /\ RunStarted
    /\ visualizeResult # "pending"

RunFinal == RunStarted /\ timers = {} /\ visualizeResult # "pending"

\* C8: for every started run on a non-empty input, with or without a signal, the
\* history never holds both COMPLETED and ERROR nor two of either, and the final
\* history holds exactly one of them.
C8_ExactlyOneTerminalEvent ==
    /\ Cardinality(Positions(COMPLETED)) + Cardinality(Positions(ERROR)) <= 1
    /\ RunFinal => Cardinality(Positions(COMPLETED)) + Cardinality(Positions(ERROR)) = 1
    /\ (RunStarted /\ visualizeResult # "pending") =>
          Cardinality(Positions(COMPLETED)) + Cardinality(Positions(ERROR)) = 1

\* a run completed, and its signal was tripped afterwards
C8_Witness ==
    /\ RunFinal /\ N = 2 /\ signalMode = "fresh" /\ aborted
    /\ Positions(COMPLETED) # {}

\* C9: under fair timer firing every run eventually settles its promise, fulfilled or
\* rejected, whether the signal is absent, never tripped, tripped before the start or
\* tripped during the run.
C9_PromiseEventuallySettles ==
    (visualizeResult = "pending" \/ executeResult = "pending") ~>
        (/\ visualizeResult \in {"fulfilled", "rejected"}
         /\ executeResult \in {"fulfilled", "rejected"})

\* a run of three elements without a signal has settled after its last timer
C9_Witness ==
    /\ N = 3 /\ signalMode = "none" /\ timers = {}
    /\ executeResult \in {"fulfilled", "rejected"}

\* no ERROR event is behind a COMPLETED event in the history
C10_NoErrorAfterCompleted ==
    \A c \in Positions(COMPLETED) : \A e \in Positions(ERROR) : e < c

\* C10: once COMPLETED has been emitted a trip of the signal emits nothing, so no
\* ERROR event is appended after COMPLETED; and when the trip comes before the N-th
\* completion, ERROR is emitted and COMPLETED never is.
C10_TripAfterCompletedIsSilent ==
    /\ [][Positions(COMPLETED) # {} => eventHistory' = eventHistory]_vars
    /\ []C10_NoErrorAfterCompleted
    /\ []((RunStarted /\ aborted /\ completedCount < N) =>
            (Positions(ERROR) # {} /\ Positions(COMPLETED) = {}))

\* the signal of a completed run of three elements was tripped after COMPLETED
C10_Witness ==
    /\ N = 3 /\ signalMode = "fresh" /\ aborted
    /\ completedCount = N /\ Positions(COMPLETED) # {}
    /\ eventHistory[Len(eventHistory)].type = COMPLETED

\* a call of the abort handle after the first leaves the signal, the context, the
\* observers, the timers and the promises as they are
C11_LaterCallChangesNothing ==
    (abortCalls >= 1 /\ abortCalls' > abortCalls) =>
        UNCHANGED <<aborted, listeners, observers, eventHistory, elementCount, stats,
                    history, updateCalls, uncaught, timers, completedCount, inner, visualizeResult, executeResult>>

\* C11: calling the abort handle of startWithAbort twice or more gives the same
\* history and the same promise outcome as calling it once: one ERROR event, not
\* two, and the aborted flag never goes back to false.
C11_AbortIdempotent ==
    /\ [][C11_LaterCallChangesNothing]_vars
    /\ [][aborted => aborted']_vars
    /\ [](Cardinality(Positions(ERROR)) <= 1)

\* the handle was called twice during a run of three elements, which has settled
C11_Witness ==
    /\ N = 3 /\ signalMode = "fresh" /\ abortCalls = 2
    /\ completedCount < N /\ Cardinality(Positions(ERROR)) = 1
    /\ visualizeResult = "fulfilled"

\* C12 as stated: a run on an empty sequence emits exactly [STARTED, COMPLETED], no
\* ELEMENT_DISPLAYED, schedules no timer and resolves successfully.
C12_EmptyRunCompletes ==
    (N = 0 /\ visualizeResult # "none") =>
        /\ [p \in 1..Len(eventHistory) |-> eventHistory[p].type] = <<STARTED, COMPLETED>>
        /\ timers = {}
        /\ executeResult \in {"pending", "fulfilled"}

\* C12, amended: a run on an empty sequence emits no event at all, schedules no
\* timer, and fails with the validation error: visualize throws and the promise of
\* execute rejects.
C12_EmptyRunRejected ==
    (N = 0 /\ visualizeResult # "none") =>
        /\ eventHistory = <<>>
        /\ timers = {}
        /\ visualizeResult = "threw"
        /\ executeResult = "rejected"

\* execute was called on an empty array
C12_Witness == N = 0 /\ visualizeResult # "none" /\ signalMode = "fresh"

\* C13: when visualize of either strategy is called with an empty array or with a
\* first argument that is no array, the validation error is raised before any event
\* is emitted: the history stays empty, no observer is invoked, no timer is scheduled.
C13_ValidationBeforeAnyEvent ==
    (visualizeResult # "none" /\ (~argIsArray \/ Len(array) = 0)) =>
        /\ visualizeResult = "threw"
        /\ eventHistory = <<>>
        /\ elementCount = 0
        /\ stats = StatsInit
        /\ history = <<>>
        /\ timers = {}
        /\ completionTimer = Undefined
        /\ listeners = {}

\* TimeoutForEachStrategy.visualize was called with a first argument that is no array
C13_Witness == strategy = "sync" /\ ~argIsArray /\ visualizeResult = "threw"

\* the elements of the ELEMENT_DISPLAYED events, in the order of the history
DisplayedElements ==
    LET shown == SelectSeq(eventHistory, LAMBDA e : e.type = ELEMENT_DISPLAYED)
    IN  [k \in 1..Len(shown) |-> shown[k].element]

\* e is put into the sorted sequence srt behind every element that is not heavier
RECURSIVE InsertByWeight(_, _)
InsertByWeight(e, srt) ==
    IF srt = <<>> THEN <<e>>
    ELSE IF e.value < srt[1].value THEN <<e>> \o srt
    ELSE <<srt[1]>> \o InsertByWeight(e, Tail(srt))

\* the stable sort of a sequence of elements by weight
RECURSIVE StableSort(_)
StableSort(a) ==
    IF a = <<>> THEN <<>>
    ELSE InsertByWeight(a[Len(a)], StableSort(SubSeq(a, 1, Len(a) - 1)))

\* C14: under a scheduler that fires timers in non-decreasing order of delay, ties in
\* registration order, and with no cancellation, the elements of the
\* ELEMENT_DISPLAYED events are the input stably sorted by weight; weights
\* [30, 10, 20] are displayed as 10, 20, 30 and then COMPLETED follows.
C14_DisplayedInWeightOrder ==
    (RunStarted /\ ~aborted) =>
        /\ \A k \in 1..Len(DisplayedElements) :
              DisplayedElements[k] = StableSort(array)[k]
        /\ timers = {} =>
              /\ DisplayedElements = StableSort(array)
              /\ eventHistory[Len(eventHistory)].type = COMPLETED
              /\ Cardinality(Positions(COMPLETED)) = 1

\* weights [30, 10, 20] (as 2, 0, 1) have been displayed as 10, 20, 30
C14_Witness ==
    /\ N = 3 /\ array[1].value = 2 /\ array[2].value = 0 /\ array[3].value = 1
    /\ RunStarted /\ ~aborted /\ timers = {}
    /\ [k \in 1..Len(DisplayedElements) |-> DisplayedElements[k].value] = <<0, 1, 2>>
    /\ eventHistory[Len(eventHistory)].type = COMPLETED

\* C15: a successful run yields a result whose value is the sequence of processed
\* elements, every input element exactly once, in completion order: the promise
\* resolves with the sorted array.
C15_FulfilledWithProcessedElements ==
    (executeResult = "fulfilled" /\ Positions(COMPLETED) # {}) =>
        /\ ResolvedValue.defined
        /\ ResolvedValue.elements = DisplayedElements
        /\ \A i \in 1..N :
              Cardinality({k \in 1..Len(ResolvedValue.elements) :
                              ResolvedValue.elements[k] = array[i]}) = 1

\* C16: in any run no ELEMENT_DISPLAYED event is emitted after the run's ERROR
\* event, whether the ERROR came from cancellation or from a fault raised while the
\* timers were scheduled (getValue() throwing for a later element).
C16_NoElementDisplayedAfterError ==
    strategy = "async" =>
        \A e \in Positions(ERROR) : \A p \in Positions(ELEMENT_DISPLAYED) : p < e

\* C17: when an observer's update throws while ELEMENT_DISPLAYED is emitted from a
\* timer callback, COMPLETED is not emitted and the failure reaches the caller: once
\* every timer has run and no continuation is queued, the promise of the run is
\* rejected, not pending.
C17_ObserverFaultRejectsRun ==
    (strategy = "async" /\ throwOn = ELEMENT_DISPLAYED /\ "timer" \in uncaught) =>
        /\ Positions(COMPLETED) = {}
        /\ (timers = {} /\ ~MicrotaskQueued) => executeResult = "rejected"

\* the place of an attached observer in the order of iteration
PlaceOf(o) == CHOOSE k \in 1..Len(observers) : observers[k] = o

\* an emission during which the update of the attached faulty observer throws: the
\* emit call ends with the exception, the event is in the history, the observers up to
\* the faulty one were invoked and keep the effects, the ones behind it were not
C18_StepWhenUpdateThrows ==
    (emitted' # emitted /\ Attached("faulty") /\ emitted'[Len(emitted')].type = throwOn) =>
        LET event == emitted'[Len(emitted')]
            k == PlaceOf("faulty")
        IN  /\ emitResult' = "threw"
            /\ eventHistory' = Append(eventHistory, event)
            /\ \A j \in 1..Len(observers) :
                  updateCalls'[observers[j]] =
                      updateCalls[observers[j]] + (IF j <= k THEN 1 ELSE 0)
            /\ stats' = IF PlaceOf("stats") < k THEN StatisticsUpdate(stats, event) ELSE stats
            /\ history' = IF PlaceOf("history") < k THEN HistoryUpdate(history, event)
                          ELSE history

\* C18: when an observer's update throws during notify, the exception propagates out
\* of notify to the emitter; the observers invoked before the faulty one keep the
\* effects of the event, the observers after it in iteration order are not invoked
\* for the event, and the event is already in the history.
C18_ObserverFaultPropagates == [][C18_StepWhenUpdateThrows]_vars

\* the faulty observer, attached between the two others, threw on the first event
C18_Witness ==
    /\ observers = <<"stats", "faulty", "history">>
    /\ emitResult = "threw"
    /\ Len(eventHistory) = 1
    /\ updateCalls = [o \in Observers |-> IF o = "history" THEN 0 ELSE 1]
    /\ stats.events[throwOn] = 1
    /\ history = <<>>

\* an emission that returns normally: the event is appended and update is called once
\* on each attached observer, which takes the event, and on no other
C19_StepOfNotify ==
    (emitted' # emitted /\ emitResult' = "returned") =>
        LET event == emitted'[Len(emitted')]
        IN  /\ eventHistory' = Append(eventHistory, event)
            /\ \A o \in Observers :
                  updateCalls'[o] = updateCalls[o] + (IF Attached(o) THEN 1 ELSE 0)
            /\ stats' = IF Attached("stats") THEN StatisticsUpdate(stats, event) ELSE stats
            /\ history' = IF Attached("history") THEN HistoryUpdate(history, event)
                          ELSE history
            /\ observers' = observers

\* C19: each call of notify(event) appends the event to the history and then invokes
\* update(event) exactly once on every observer attached at that moment, within the
\* call, and on no observer that is not attached.
C19_NotifyEachAttachedOnce == [][C19_StepOfNotify]_vars

\* two events were emitted normally; the HistoryObserver was attached for one of them
\* only, the StatisticsObserver for none
C19_Witness ==
    /\ Len(eventHistory) = 2 /\ emitResult = "returned"
    /\ updateCalls["faulty"] = 2
    /\ updateCalls["history"] = 1 /\ Len(history) = 1
    /\ updateCalls["stats"] = 0 /\ stats = StatsInit

\* C20: the event history of the context is append-only and in emission order: after
\* any sequence of attach, detach, emit and getEventHistory calls it equals the
\* sequence of the emitted events, and every earlier history is a prefix of every
\* later one.
C20_HistoryAppendOnly ==
    /\ [](eventHistory = emitted)
    /\ [][/\ Len(eventHistory') >= Len(eventHistory)
          /\ SubSeq(eventHistory', 1, Len(eventHistory)) = eventHistory]_vars

\* after an emission, a getEventHistory call, an emission on which an update threw and
\* the detach of every observer
C20_Witness ==
    /\ Len(eventHistory) = 2 /\ Len(snapshot.array) = 1
    /\ emitResult = "threw"
    /\ observers = <<>>

\* C21: getEventHistory returns a copy of the event log: adding, removing or
\* reordering entries of the returned array changes neither the history of the
\* context nor the result of a later getEventHistory call, which is the sequence of
\* the emitted events.
C21_HistoryCopyIsDetached ==
    /\ [][(\E m \in Mutations : MutateSnapshot(m)) => eventHistory' = eventHistory]_vars
    /\ [][GetEventHistory => (snapshot'.array = emitted /\ ~snapshot'.live)]_vars
    /\ [](eventHistory = emitted)

\* the caller reversed the copy of a history of two different events
C21_Witness ==
    /\ Len(eventHistory) = 2 /\ eventHistory[1] # eventHistory[2]
    /\ Len(snapshot.array) = 2
    /\ snapshot.array[1] = eventHistory[2] /\ snapshot.array[2] = eventHistory[1]

\* the observer o is in the set of observers after the step
AttachedAfter(o) == \E k \in 1..Len(observers') : observers'[k] = o

\* C22: attach is idempotent and detach of an absent observer is a no-op: the set
\* holds an observer at most once however often it was attached, so it receives each
\* later event once; one detach removes it and ends the delivery to it; attach of an
\* attached observer and detach of an absent one leave the observers and the history
\* as they are.
C22_AttachIdempotentDetachNoOp ==
    /\ [](\A j, k \in 1..Len(observers) : observers[j] = observers[k] => j = k)
    /\ [][\A o \in CountedObservers :
            /\ (AttachCounted(o) /\ Attached(o)) =>
                  (observers' = observers /\ eventHistory' = eventHistory)
            /\ AttachCounted(o) => AttachedAfter(o)
            /\ DetachCounted(o) => ~AttachedAfter(o)
            /\ (DetachCounted(o) /\ ~Attached(o)) =>
                  (observers' = observers /\ eventHistory' = eventHistory)]_vars
    /\ [][emitted' # emitted =>
            \A o \in Observers :
                /\ updateCalls'[o] <= updateCalls[o] + 1
                /\ ~Attached(o) => updateCalls'[o] = updateCalls[o]
                /\ (Attached(o) /\ emitResult' = "returned") =>
                      updateCalls'[o] = updateCalls[o] + 1]_vars

\* the HistoryObserver was attached twice and got the first event once, was detached
\* once and did not get the second event, and was detached again while absent
C22_Witness ==
    /\ calls.attach["history"] = 2 /\ calls.detach["history"] = 2
    /\ Len(eventHistory) = 2
    /\ updateCalls["history"] = 1 /\ Len(history) = 1
    /\ history[1].event = eventHistory[1]
    /\ observers = <<>>

\* the sum of the event counts of the StatisticsObserver
TotalEventCount(s) ==
    s.events[STARTED] + s.events[ELEMENT_DISPLAYED] + s.events[COMPLETED] + s.events[ERROR]

\* C23: with a StatisticsObserver and a HistoryObserver attached for a whole run, each
\* receives every emitted event exactly once: at every point the number of entries of
\* the HistoryObserver equals the sum of the StatisticsObserver's event counts and
\* the length of the context history.
C23_BothObserversGetEveryEvent ==
    /\ Len(history) = Len(eventHistory)
    /\ TotalEventCount(stats) = Len(eventHistory)
    /\ updateCalls["stats"] = Len(eventHistory)
    /\ updateCalls["history"] = Len(eventHistory)
    /\ \A p \in 1..Len(eventHistory) : history[p].event = eventHistory[p]
    /\ \A t \in EventType : stats.events[t] = Cardinality(Positions(t))

\* a run of three elements has completed: five events
C23_Witness ==
    /\ N = 3 /\ Positions(COMPLETED) # {}
    /\ Len(history) = 5 /\ TotalEventCount(stats) = 5

\* the sum of the delays of a sequence of events
RECURSIVE SumDelay(_)
SumDelay(events) ==
    IF events = <<>> THEN 0 ELSE events[1].delay + SumDelay(Tail(events))

\* the events of type t in a sequence of events
OfType(events, t) == SelectSeq(events, LAMBDA e : e.type = t)

\* C24: after any sequence of events received since construction or the last reset,
\* getStatistics returns displayedElements = the number of ELEMENT_DISPLAYED events
\* received, totalDelay = the sum of their delays, averageDelay = totalDelay /
\* displayedElements when displayedElements > 0 and 0 otherwise, and eventCounts with
\* the number of events received of each type.
C24_StatisticsOfReceivedEvents ==
    LET shown == OfType(received.stats, ELEMENT_DISPLAYED)
        result == getStatistics(stats)
    IN  /\ result.displayedElements = Len(shown)
        /\ result.totalDelay = SumDelay(shown)
        /\ IF Len(shown) > 0
           THEN result.averageDelay.num * Len(shown) = SumDelay(shown) * result.averageDelay.den
           ELSE result.averageDelay.num = 0
        /\ result.averageDelay.den > 0
        /\ \A t \in EventType : result.eventCounts[t] = Len(OfType(received.stats, t))

\* since a reset the observer received STARTED and two elements, of delay 0 and MaxWeight
C24_Witness ==
    /\ received.resetAfterCompleted
    /\ Len(received.stats) = 3
    /\ Len(OfType(received.stats, ELEMENT_DISPLAYED)) = 2
    /\ stats.totalDelay = MaxWeight
    /\ stats.events[STARTED] = 1

\* the state of a freshly constructed StatisticsObserver after a sequence of events
RECURSIVE FreshObserverAfter(_)
FreshObserverAfter(events) ==
    IF events = <<>> THEN StatsInit
    ELSE StatisticsUpdate(FreshObserverAfter(SubSeq(events, 1, Len(events) - 1)),
                          events[Len(events)])

\* C25: reset sets displayedElements, totalDelay, start and end time to 0 and empties
\* eventCounts, and the statistics of the events observed after it equal those a
\* freshly constructed observer reports for them.
C25_ResetGivesFreshObserver ==
    /\ [][StatsReset =>
            /\ stats'.displayedElements = 0 /\ stats'.totalDelay = 0
            /\ stats'.startTime = 0 /\ stats'.endTime = 0
            /\ \A t \in EventType : stats'.events[t] = 0]_vars
    /\ [](/\ stats = FreshObserverAfter(received.stats)
          /\ getStatistics(stats) = getStatistics(FreshObserverAfter(received.stats)))

\* the observer was reset after a completed run and has observed another one
C25_Witness ==
    /\ received.resetAfterCompleted
    /\ [k \in 1..Len(received.stats) |-> received.stats[k].type] =
           <<STARTED, ELEMENT_DISPLAYED, COMPLETED>>
    /\ received.stats[2].delay = MaxWeight

\* C26: the HistoryObserver holds every event it received since construction or the
\* last clear, in the order of receipt; clear empties the record; changes of the
\* array getHistory returned do not change the record.
C26_HistoryObserverRecord ==
    /\ [](/\ Len(history) = Len(received.history)
          /\ \A k \in 1..Len(history) :
                /\ history[k].event = received.history[k]
                /\ history[k].formattedTime = toLocaleTimeString(received.history[k].timestamp))
    /\ [][HistoryClear => history' = <<>>]_vars
    /\ [][GetHistory => (snapshot'.array = history /\ ~snapshot'.live)]_vars
    /\ [][(\E m \in Mutations : MutateHistoryCopy(m)) => history' = history]_vars

\* after a clear the observer recorded two different events, and the caller reversed
\* the array getHistory returned
C26_Witness ==
    /\ received.clearedNonEmpty
    /\ Len(history) = 2 /\ history[1] # history[2]
    /\ snapshot.array = <<history[2], history[1]>>

\* the types of the events handed over while the manager had enableLogging true
RECURSIVE TypesWhileEnabled(_)
TypesWhileEnabled(handed) ==
    IF handed = <<>> THEN <<>>
    ELSE IF Head(handed).enabled
         THEN <<Head(handed).type>> \o TypesWhileEnabled(Tail(handed))
         ELSE TypesWhileEnabled(Tail(handed))

\* C27: the ConsoleLoggingObserver writes an event if and only if enableLogging is
\* true in the ConfigurationManager when the event is handed to it, so that an
\* updateConfig({enableLogging: false}) after its construction silences it
C27_LogsIffEnabledAtEmission == logging.output = TypesWhileEnabled(logging.handed)

\* a COMPLETED or an ERROR event has been emitted
TerminalEventEmitted ==
    \E k \in 1..Len(eventHistory) : eventHistory[k].type \in {COMPLETED, ERROR}

\* C28: AbstractVisualizationRunner.run takes its steps in the order beforeRun,
\* create the strategy, build the visualizer with its context and observers, execute,
\* afterRun, and afterRun is invoked only after the terminal COMPLETED or ERROR event
\* of the run has been emitted
C28_AfterRunOnlyAfterTerminalEvent ==
    /\ \E n \in 0..Len(RunSteps) : runnerLog = SubSeq(RunSteps, 1, n)
    /\ (runnerLog # <<>> /\ runnerLog[Len(runnerLog)] = "afterRun") => TerminalEventEmitted

\* C29: in a run of TimeoutForEachStrategy.visualize over a non-empty array, whatever
\* the values of the elements, COMPLETED is emitted after the ELEMENT_DISPLAYED events
\* of all elements: no ELEMENT_DISPLAYED follows COMPLETED in the history
C29_NoElementDisplayedAfterCompleted ==
    (strategy = "sync" /\ array # <<>>) =>
        \A j, k \in 1..Len(eventHistory) :
            (j < k /\ eventHistory[j].type = COMPLETED)
                => eventHistory[k].type # ELEMENT_DISPLAYED

\* C30: in every history of a run over elements of non-negative values, each
\* ELEMENT_DISPLAYED event carries an element (the one of the array at its index), an
\* index >= 0 and a delay >= 0, and each STARTED and COMPLETED event carries neither
\* an element nor an index
C30_EventFields ==
    \A k \in 1..Len(eventHistory) :
        LET e == eventHistory[k]
        IN  /\ e.type = ELEMENT_DISPLAYED =>
                  /\ e.element # NoElement
                  /\ e.index >= 0 /\ e.index < Len(array)
                  /\ e.element = array[e.index + 1]
                  /\ e.delay >= 0
            /\ e.type \in {STARTED, COMPLETED} =>
                  (e.element = NoElement /\ e.index = Undefined)

\* a run of two elements has ended: the second element, of value 0, was shown first
C30_Witness ==
    /\ Len(eventHistory) = 4
    /\ eventHistory[1].type = STARTED
    /\ eventHistory[2].type = ELEMENT_DISPLAYED
    /\ eventHistory[2].index = 1 /\ eventHistory[2].delay = 0
    /\ eventHistory[3].type = ELEMENT_DISPLAYED
    /\ eventHistory[3].index = 0 /\ eventHistory[3].delay = MaxWeight
    /\ eventHistory[4].type = COMPLETED

\* the ERROR events of the history
ErrorCount == Cardinality({k \in 1..Len(eventHistory) : eventHistory[k].type = ERROR})

\* C33: when getValue() of an element throws while AsyncTimeoutForEachStrategy.visualize
\* is scheduling the timers, the run emits exactly one ERROR event in total and its
\* promise rejects with the fault; a later trip of the signal emits no second ERROR
C33_OneErrorAfterSchedulingFault ==
    (strategy = "async" /\ faultAt # 0 /\ throwOn = "none" /\ signalMode # "preaborted"
        /\ visualizeResult \notin {"none", "pending"}) =>
        /\ ErrorCount = 1
        /\ visualizeResult = "rejected" /\ inner = "rejectedFault"

\* the ELEMENT_DISPLAYED events among the first k of the history
DisplayedUpTo(k) == Cardinality({j \in 1..k : eventHistory[j].type = ELEMENT_DISPLAYED})

\* only a call of emitElementDisplayed changes the element count, by one
C35_StepOfElementCount ==
    elementCount' # elementCount =>
        /\ elementCount' = elementCount + 1
        /\ emitted' # emitted
        /\ emitted'[Len(emitted')].type = ELEMENT_DISPLAYED

\* C35: in every state of a VisualizationContext getElementCount() is the number of
\* ELEMENT_DISPLAYED events in its history and the k-th of them carries totalDisplayed
\* k; emitStarted, emitCompleted, emitError, attach and detach leave the count as it is
C35_ElementCountMatchesHistory ==
    /\ [](elementCount = DisplayedUpTo(Len(eventHistory)))
    /\ [](\A k \in 1..Len(eventHistory) :
             eventHistory[k].type = ELEMENT_DISPLAYED =>
                 eventHistory[k].totalDisplayed = DisplayedUpTo(k))
    /\ [][C35_StepOfElementCount]_vars

\* an element was shown after STARTED while the faulty observer, attached, threw
C35_Witness ==
    /\ Len(eventHistory) = 2
    /\ eventHistory[1].type = STARTED
    /\ eventHistory[2].type = ELEMENT_DISPLAYED
    /\ elementCount = 1
    /\ emitResult = "threw"

\* C37: with timestamps that do not decrease, the duration getStatistics reports is
\* >= 0 in every state after the run has ended, with COMPLETED or, cancelled, with ERROR
C37_DurationNonNegative ==
    (visualizeResult \in {"fulfilled", "rejected"}) => getStatistics(stats).duration >= 0

\* the ids of the commands of a queue, in its order
Ids(queue) == [k \in 1..Len(queue) |-> queue[k].id]

\* no command of the queue throws when executed
NoneThrows(queue) == \A k \in 1..Len(queue) : ~Throws(queue[k])

\* what a call of executeAll, executeNext and clearQueue does to the invoker
C38_StepOfInvoker ==
    /\ (ExecuteAll /\ NoneThrows(invoker.commandQueue)) =>
          /\ getQueueSize(invoker') = 0
          /\ getExecutedCommands(invoker') =
                 invoker.executedCommands \o invoker.commandQueue
          /\ invoker'.ran = invoker.ran \o Ids(invoker.commandQueue)
    /\ (ExecuteNext /\ invoker.commandQueue # <<>>
            /\ ~Throws(Head(invoker.commandQueue))) =>
          /\ invoker'.commandQueue = Tail(invoker.commandQueue)
          /\ invoker'.executedCommands =
                 Append(invoker.executedCommands, Head(invoker.commandQueue))
          /\ invoker'.ran = Append(invoker.ran, Head(invoker.commandQueue).id)
    /\ (ExecuteNext /\ invoker.commandQueue = <<>>) =>
          /\ invoker'.commandQueue = <<>>
          /\ invoker'.executedCommands = invoker.executedCommands
          /\ invoker'.ran = invoker.ran
          /\ logging' = logging
    /\ ClearQueue =>
          /\ getQueueSize(invoker') = 0
          /\ invoker'.executedCommands = invoker.executedCommands
          /\ invoker'.ran = invoker.ran

\* C38: the CommandInvoker executes in FIFO order. The queue holds the pending
\* commands in the order they were enqueued; executeAll runs the commands of the
\* queue in that order, each once, leaves the queue empty and appends them to the
\* executed list; executeNext on an empty queue changes nothing; clearQueue drops the
\* pending commands and leaves the executed list alone
C38_InvokerIsFifo ==
    /\ [](\A j, k \in 1..Len(invoker.commandQueue) :
             j < k => invoker.commandQueue[j].id < invoker.commandQueue[k].id)
    /\ [][C38_StepOfInvoker]_vars

\* two commands were executed in the order they were enqueued, a third was cleared
C38_Witness ==
    /\ invoker.ran = <<1, 2>>
    /\ Ids(invoker.executedCommands) = <<1, 2>>
    /\ invoker.cleared = 1
    /\ getQueueSize(invoker) = 0

\* C39: when the execute of a command throws in executeNext or executeAll, no command
\* is lost: every command enqueued and not cleared is in the queue or in the executed
\* list, so the sizes of the two add up to the number of those commands
C39_NoCommandLost ==
    getQueueSize(invoker) + Len(getExecutedCommands(invoker))
        = invoker.enqueued - invoker.cleared

\* the HistoryObserver was attached when the k-th event of the history was emitted:
\* the last call made before it was addObserver, or there was none
AttachedWhen(k) ==
    LET before == {m \in 1..Len(marks) : marks[m].at < k}
    IN  before = {} \/ marks[CHOOSE m \in before : \A n \in before : n <= m].call = "addObserver"

\* what a HistoryObserver holds that was given the events among the first k of the
\* history that were emitted while it was attached
RECURSIVE HistoryWhileAttached(_)
HistoryWhileAttached(k) ==
    IF k = 0 THEN <<>>
    ELSE IF AttachedWhen(k)
         THEN HistoryUpdate(HistoryWhileAttached(k - 1), eventHistory[k])
         ELSE HistoryWhileAttached(k - 1)

\* C36: an observer removed in the middle of a run receives no event emitted after the
\* removal and one added in the middle of a run receives only the events emitted after
\* it was added: what it received is exactly the events emitted while it was attached,
\* and the history of the context, like an observer attached throughout, has every event
C36_ReceivesWhileAttached ==
    /\ history = HistoryWhileAttached(Len(eventHistory))
    /\ updateCalls["stats"] = Len(eventHistory)
    /\ TotalEventCount(stats) = Len(eventHistory)

\* the observer was removed after STARTED and added again after the first element: of
\* the four events of the run it received three
C36_Witness ==
    /\ marks = <<[call |-> "removeObserver", at |-> 1], [call |-> "addObserver", at |-> 2]>>
    /\ Len(eventHistory) = 4
    /\ Len(history) = 3
    /\ history[2].event = eventHistory[3]

\* the positions of the events of type t in the history of the context ctx
PositionsIn(ctx, t) == {k \in 1..Len(ctx.eventHistory) : ctx.eventHistory[k].type = t}

\* the history of the context of run r holds events of run r alone, and they are
\* those of one run: STARTED first and once, then the elements of its array shown so
\* far, each once, then at most one COMPLETED, carrying the length of the array, or
\* ERROR, and nothing after it
OwnRunInHistory(r) ==
    LET run == multi.runs[r]
        ctx == multi.contexts[run.visualizer]
        h == ctx.eventHistory
        terminal == PositionsIn(ctx, COMPLETED) \cup PositionsIn(ctx, ERROR)
    IN  /\ \A k \in 1..Len(h) : ctx.emittedBy[k] = r
        /\ Len(h) >= 1 /\ PositionsIn(ctx, STARTED) = {1}
        /\ \A k \in PositionsIn(ctx, ELEMENT_DISPLAYED) :
              /\ h[k].index \in 0..(run.length - 1)
              /\ h[k].element = RunElements(r, run.length)[h[k].index + 1]
              /\ \A j \in PositionsIn(ctx, ELEMENT_DISPLAYED) :
                    h[j].element = h[k].element => j = k
        /\ Cardinality(PositionsIn(ctx, ELEMENT_DISPLAYED)) = run.completedCount
        /\ Cardinality(terminal) <= 1
        /\ \A k \in terminal : k = Len(h)
        /\ \A k \in PositionsIn(ctx, COMPLETED) :
              h[k].totalElements = run.length /\ run.completedCount = run.length
        /\ PositionsIn(ctx, ERROR) # {} => (run.hasSignal /\ run.aborted)

\* the second run, if started, is on another visualizer than the first
OnTwoVisualizers ==
    multi.runs[2].state = "none" \/ multi.runs[2].visualizer # multi.runs[1].visualizer

\* C31: two runs on two visualizers, their timers pending at once and fired in any
\* interleaving, either of them cancelled, do not interfere: the history of each
\* context holds the events of its own run alone, and they are those of one run
C31_RunsDoNotInterfere ==
    OnTwoVisualizers =>
        /\ \A r \in RunIds : multi.runs[r].state # "none" => OwnRunInHistory(r)
        /\ \A v \in Visualizers :
              (\A r \in RunIds : multi.runs[r].state = "none" \/ multi.runs[r].visualizer # v)
                  => multi.contexts[v].eventHistory = <<>>

\* the first run was cancelled after its first element while the second, on the
\* other visualizer, was pending, and the second has completed
C31_Witness ==
    /\ multi.runs[1].visualizer = "first" /\ multi.runs[2].visualizer = "second"
    /\ multi.runs[1].aborted /\ multi.runs[1].completedCount = 1
    /\ multi.runs[1].state = "fulfilled" /\ multi.runs[2].state = "fulfilled"
    /\ Len(multi.contexts["first"].eventHistory) = 3
    /\ Len(multi.contexts["second"].eventHistory) = 4
    /\ PositionsIn(multi.contexts["second"], COMPLETED) = {4}

\* C32: the abort handle a call of startWithAbort returned cancels the run that call
\* started, also when startWithAbort was called again on the visualizer in the meantime:
\* a call of the handle leaves the signal of its own run tripped and trips no other
C32_HandleCancelsItsOwnRun ==
    \A r \in RunIds :
        multi.handles[r].calls > 0 =>
            (multi.runs[r].aborted /\ multi.handles[r].tripped \subseteq {r})

\* C34: the totalElements of every COMPLETED event is the number of elements of the run
\* that emitted it, also when execute is called more than once on one visualizer, and
\* the events between the STARTED and the COMPLETED of a run are the ELEMENT_DISPLAYED
\* events of that run alone
C34_CompletedCountsItsOwnRun ==
    \A v \in Visualizers :
        LET ctx == multi.contexts[v]
            h == ctx.eventHistory
        IN  \A k \in PositionsIn(ctx, COMPLETED) :
                /\ h[k].totalElements = multi.runs[ctx.emittedBy[k]].length
                /\ \A s \in PositionsIn(ctx, STARTED) :
                      (s < k /\ ctx.emittedBy[s] = ctx.emittedBy[k]) =>
                          \A j \in (s + 1)..(k - 1) :
                              /\ h[j].type = ELEMENT_DISPLAYED
                              /\ ctx.emittedBy[j] = ctx.emittedBy[k]

====
